---- MODULE Spec2Model ----
(***************************************************************************)
(* Thera-stack backend.                                                    *)
(*   Spec, SpecRepeat   MP3Transcriber._process_transcript and its helper  *)
(*                      _calculate_avg_confidence, called once and called  *)
(*                      again (src/backend/services/patient_docs_s3/       *)
(*                      Patient Transcriptions/mp3_to_transcript.py)       *)
(*   SpecWait           MP3Transcriber._wait_for_transcription_job         *)
(*   SpecLambda         lambda_handler, transcribe_file and                *)
(*                      transcribe_s3_file of the same file                *)
(*   SpecBilling        the superbill routes of                            *)
(*                      src/backend/services/billing/billing_api.py        *)
(*   SpecCalendar       src/backend/services/calendar_dynamodb/            *)
(*                      calendar_db.py                                     *)
(*   SpecSession        the login, calendar and logout requests of         *)
(*                      src/tests/integration/test_user_flow.py            *)
(*   SpecMethods        create_payment_method and delete_payment_method of *)
(*                      src/backend/services/payments/payments_api.py      *)
(*   SpecPayments       update_payment and process_payment of the same     *)
(*                      file                                               *)
(*   SpecRecords        the routes that create and update the records of   *)
(*                      one service: superbills (billing_api.py) or        *)
(*                      payments (payments_api.py); service says which     *)
(* The specifications share the variables; each leaves the variables of    *)
(* the others as they are initially.                                       *)
(*                                                                         *)
(* Python values are represented as follows.                               *)
(*   dict        a record; a key the dict lacks is a field the record      *)
(*               lacks, and d.get(k, default) is Get(d, k, default)        *)
(*   list        a sequence                                                *)
(*   str         a sequence of symbols (Str below); a word, a speaker role *)
(*               or a punctuation mark is one symbol, " " and "\n" are     *)
(*               symbols of their own, so that ' '.join and the counting   *)
(*               of space-separated tokens are computed, not assumed       *)
(*   speaker     labels are kept as atoms ("spk_0"); None is the atom None *)
(*   Optional    the returned conversation is NoConversation (None) or     *)
(*               Some(list)                                                *)
(*   float       a binary floating-point number with Precision significant *)
(*               bits, round-half-to-even, held as an integer number of    *)
(*               units of 2^-ScaleBits                                     *)
(***************************************************************************)
EXTENDS Integers, Sequences, FiniteSets, TLC

VARIABLES
    transcript_data,  \* the argument of _process_transcript
    pc,               \* position in _process_transcript
    items,            \* local: results.get('items', [])
    speaker_labels,   \* local: the speaker segments
    full_transcript,  \* local
    word_speaker_map, \* local: start_time -> {speaker, end_time}
    seg_i,            \* index of the segment the outer loop of 221 is at
    conversation,     \* local
    current_speaker,  \* local
    current_text,     \* local
    item_i,           \* index of the item the loop of 233 is at
    formatted_text,   \* local
    result            \* the returned dict, once returned

\* Invocations of _process_transcript one after another on one transcriber
VARIABLES
    invocation,       \* "only", or which invocation of the sequence is running
    first_input,      \* the argument of the first invocation
    first_outcome     \* what the first invocation ended with

\* The billing service (billing_api.py)
VARIABLES
    superbills_db,    \* id -> the superbill's status, submitted_date, claim_number
    billing_request,  \* the last request: the route and its superbill_id
    billing_response, \* the response to it: status code and the id of its body
    times_submitted,  \* id -> how often submit succeeded on it: 0, 1, or 2 for more
    reopened          \* ids whose status an update set to "pending" since then

\* _wait_for_transcription_job
VARIABLES
    max_retries,      \* self.max_retries
    wait_pc,          \* position in _wait_for_transcription_job
    retry,            \* the loop variable of line 131
    checks,           \* what get_transcription_job gave, call by call
    job_details,      \* the returned job details, once returned
    wait_error,       \* the exception the wait ended with, once raised
    appointments_db,  \* calendar_db.appointments_db: id -> appointment
    appointment_keys, \* the keys of appointments_db in insertion order
    calendar_result,  \* what the last function of calendar_db returned
    created,          \* history: id -> title of the last create that returned it
    sessions,         \* the access tokens that are in force
    issued,           \* the number of access tokens issued so far
    api_response,     \* the last request of the client and its answer
    used,             \* history: tokens a calendar request succeeded with
    revoked,          \* history: tokens used with success, then logged out
    entry,            \* the function of the transcriber module that was called
    event,            \* the argument of lambda_handler
    environ,          \* os.environ
    file_path,        \* the argument of transcribe_file
    s3_bucket,        \* bucket, the argument of transcribe_s3_file
    s3_key,           \* key, the argument of transcribe_s3_file
    h_pc,             \* position in lambda_handler and the functions it calls
    steps,            \* history: the steps of transcribe_s3_file that were begun
    failed,           \* history: the step of transcribe_s3_file that raised
    returned,         \* what the pipeline returned to lambda_handler or the caller
    response,         \* what the called function returned or raised
    payments_db,      \* payments_api.payments_db: id -> payment
    payment_methods_db,   \* payments_api.payment_methods_db: id -> method
    payment_method_keys,  \* the keys of payment_methods_db in insertion order
    payments_response,    \* the last request to the payments routes, answered
    service           \* the service whose routes are called, where one is chosen

transcript_vars ==
    <<transcript_data, pc, items, speaker_labels, full_transcript,
      word_speaker_map, seg_i, conversation, current_speaker,
      current_text, item_i, formatted_text, result>>

repeat_vars == <<invocation, first_input, first_outcome>>

billing_vars ==
    <<superbills_db, billing_request, billing_response, times_submitted, reopened>>

wait_vars == <<max_retries, wait_pc, retry, checks, job_details, wait_error>>

calendar_vars == <<appointments_db, appointment_keys, calendar_result, created>>

session_vars == <<sessions, issued, api_response, used, revoked>>

handler_vars ==
    <<entry, event, environ, file_path, s3_bucket, s3_key, h_pc, steps, failed,
      returned, response>>

payments_vars ==
    <<payments_db, payment_methods_db, payment_method_keys, payments_response>>

vars ==
    <<transcript_vars, repeat_vars, billing_vars, wait_vars, calendar_vars,
      session_vars, handler_vars, payments_vars, service>>

\* what the invocations of _process_transcript do not touch
outside_repeat ==
    <<billing_vars, wait_vars, calendar_vars, session_vars,
      handler_vars, payments_vars, service>>

\* what _process_transcript does not touch
outside_transcript == <<repeat_vars, outside_repeat>>

\* what the billing routes do not touch
outside_billing ==
    <<transcript_vars, repeat_vars, wait_vars, calendar_vars, session_vars,
      handler_vars, payments_vars, service>>

\* what _wait_for_transcription_job does not touch
outside_wait ==
    <<transcript_vars, repeat_vars, billing_vars, calendar_vars, session_vars,
      handler_vars, payments_vars, service>>

\* what the requests of the session test do not touch
outside_session ==
    <<transcript_vars, repeat_vars, billing_vars, wait_vars, calendar_vars,
      handler_vars, payments_vars, service>>

\* what lambda_handler and the functions it calls do not touch, but for
\* what _wait_for_transcription_job and _process_transcript use
outside_pipeline ==
    <<repeat_vars, billing_vars, calendar_vars, session_vars, payments_vars,
      service>>

\* what a step of lambda_handler outside these two does not touch
outside_handler == <<transcript_vars, wait_vars, outside_pipeline>>

\* what the payments routes do not touch
outside_payments ==
    <<transcript_vars, repeat_vars, billing_vars, wait_vars, calendar_vars,
      session_vars, handler_vars, service>>

\* what the functions of calendar_db do not touch
outside_calendar ==
    <<transcript_vars, repeat_vars, billing_vars, wait_vars, session_vars,
      handler_vars, payments_vars, service>>

----------------------------------------------------------------------------
(* Bounds of the inputs that are explored.                                 *)

MaxItems == 3
MaxSegments == 2
MaxChunks == 2
MaxBills == 4
MaxRetries == 3
MaxLogins == 3
MaxPayments == 4
MaxMethods == 3
Precision == 3
ScaleBits == 8

\* line 44: the retry budget without TRANSCRIBE_MAX_RETRIES
DefaultMaxRetries == 5

----------------------------------------------------------------------------
(* Python values                                                           *)

None == "None"

Get(d, k, default) == IF k \in DOMAIN d THEN d[k] ELSE default

Truthy(s) == s /= None /\ s /= ""

NoConversation == <<>>
Some(x) == <<x>>

EmptyMap == <<>>

MapPut(m, k, v) == [x \in (DOMAIN m) \cup {k} |-> IF x = k THEN v ELSE m[x]]

RECURSIVE JoinStr(_, _)
JoinStr(parts, sep) ==
    IF parts = <<>> THEN <<>>
    ELSE IF Len(parts) = 1 THEN parts[1]
    ELSE parts[1] \o sep \o JoinStr(Tail(parts), sep)

Space == <<" ">>
Newline == <<"\n">>

----------------------------------------------------------------------------
(* float: Precision significant bits, round-half-to-even, in units of      *)
(* 2^-ScaleBits.  A value below 2^(Precision-1) units is held exactly to   *)
(* the unit (the smallest spacing).                                        *)

One == 2 ^ ScaleBits

RECURSIVE Ulp(_, _, _)
Ulp(a, b, u) ==
    IF 2 * u * (2 ^ (Precision - 1)) * b <= a THEN Ulp(a, b, 2 * u) ELSE u

RoundHalfEven(a, d) ==
    LET q == a \div d
        r == a % d
    IN  IF 2 * r > d \/ (2 * r = d /\ q % 2 = 1) THEN q + 1 ELSE q

\* the float nearest to the rational a / b (a >= 0, b > 0)
FRound(a, b) ==
    IF a = 0 THEN 0
    ELSE LET u == Ulp(a, b, 1) IN u * RoundHalfEven(a, b * u)

FAdd(x, y) == FRound(x + y, 1)

FDiv(x, n) == FRound(x, n)

\* sum(values): left to right from 0
RECURSIVE FSum(_)
FSum(values) ==
    IF values = <<>> THEN 0
    ELSE FAdd(FSum(SubSeq(values, 1, Len(values) - 1)), values[Len(values)])

----------------------------------------------------------------------------
(* The inputs: raw AWS Transcribe output documents.                        *)
(* The item at position i of results.items has start_time i - 1 when it is *)
(* a pronunciation item (start times are distinct and increasing) and its  *)
(* own word as content, so that every word of the output is traced to its  *)
(* item.  A speaker segment covers a contiguous range of start times;      *)
(* segments may overlap, leave start times out and name start times no     *)
(* item has.                                                               *)

Labels == {"spk_0", "spk_1"}

WordSyms == <<"a", "b", "c", "d", "e", "f">>

Content(t) == <<WordSyms[t + 1]>>

Times == 0 .. (MaxItems - 1)

Confs == {One \div 4, (3 * One) \div 4, One}

PunctItem ==
    [type |-> "punctuation",
     alternatives |-> <<[content |-> <<".">>, confidence |-> 0]>>]

PronItem(t, alts) ==
    [type |-> "pronunciation", start_time |-> t, end_time |-> t + 1,
     alternatives |-> alts]

\* items that differ in what the segmentation reads
SegItemsAt(t) ==
    {PunctItem, PronItem(t, <<>>),
     PronItem(t, <<[content |-> Content(t), confidence |-> One]>>)}

\* items that differ in what the confidence average reads
ConfItemsAt(t) ==
    {PunctItem, PronItem(t, <<>>), PronItem(t, <<[content |-> Content(t)]>>)}
    \cup {PronItem(t, <<[content |-> Content(t), confidence |-> c]>>) : c \in Confs}

RECURSIVE ItemSeqs(_, _)
ItemSeqs(family, n) ==
    IF n = 0 THEN {<<>>}
    ELSE {Append(s, x) : s \in ItemSeqs(family, n - 1),
                         x \in IF family = "seg" THEN SegItemsAt(n - 1)
                                                 ELSE ConfItemsAt(n - 1)}

ItemLists(family) == UNION {ItemSeqs(family, n) : n \in 0 .. MaxItems}

Members(lo, hi) ==
    [k \in 1 .. (hi - lo + 1) |-> [start_time |-> lo + k - 1, end_time |-> lo + k]]

MemberLists == {Members(lo, hi) : lo \in Times, hi \in Times}

Segments ==
    {[speaker_label |-> l] : l \in Labels}
    \cup {[speaker_label |-> l, items |-> m] : l \in Labels, m \in MemberLists \ {<<>>}}

\* segments that are not well-typed: no speaker_label
BadSegments == {[items |-> m] : m \in MemberLists}

RECURSIVE SegmentSeqs(_)
SegmentSeqs(n) ==
    IF n = 0 THEN {<<>>}
    ELSE {Append(s, x) : s \in SegmentSeqs(n - 1), x \in Segments}

SegmentLists == UNION {SegmentSeqs(n) : n \in 0 .. MaxSegments}

Chunks == {[transcript |-> <<"a">>], [transcript |-> <<"a", " ", "b", ".">>],
           [language |-> "en-US"]}

RECURSIVE ChunkSeqs(_)
ChunkSeqs(n) ==
    IF n = 0 THEN {<<>>}
    ELSE {Append(s, x) : s \in ChunkSeqs(n - 1), x \in Chunks}

ChunkLists == UNION {ChunkSeqs(n) : n \in 0 .. MaxChunks}

DefaultChunks == <<[transcript |-> <<"a", " ", "b", ".">>]>>

\* the items all spoken words
WordItems(n) ==
    [k \in 1 .. n |->
        PronItem(k - 1, <<[content |-> Content(k - 1), confidence |-> One]>>)]

\* speaker segments of every shape and order over spoken words; items or
\* segments missing
ShapeInput(data) ==
    \/ \E n \in 0 .. MaxItems, segs \in SegmentLists :
           data = [results |-> [transcripts |-> DefaultChunks, items |-> WordItems(n),
                                speaker_labels |-> [segments |-> segs]]]
    \/ \E segs \in SegmentLists :
           data = [results |-> [transcripts |-> DefaultChunks,
                                speaker_labels |-> [segments |-> segs]]]
    \/ \E its \in ItemLists("seg") :
           data = [results |-> [transcripts |-> DefaultChunks, items |-> its,
                                speaker_labels |-> [channel |-> "none"]]]

\* one segment per start time that has a speaker
RECURSIVE WordSegments(_, _)
WordSegments(speakers, n) ==
    IF n = 0 THEN <<>>
    ELSE IF speakers[n - 1] = None THEN WordSegments(speakers, n - 1)
    ELSE Append(WordSegments(speakers, n - 1),
                [speaker_label |-> speakers[n - 1], items |-> Members(n - 1, n - 1)])

\* items of every shape, each start time with a speaker of its own or none
TurnInput(data) ==
    \E its \in ItemLists("seg"), speakers \in [Times -> Labels \cup {None}] :
        data = [results |-> [transcripts |-> DefaultChunks, items |-> its,
                             speaker_labels |->
                                 [segments |-> WordSegments(speakers, MaxItems)]]]

\* no speaker_labels: transcripts of every shape
PlainInput(data) ==
    \/ \E its \in ItemLists("seg"), ch \in ChunkLists :
           data = [results |-> [transcripts |-> ch, items |-> its]]
    \/ \E its \in ItemLists("seg") : data = [results |-> [items |-> its]]
    \/ data = [status |-> "COMPLETED"]

\* confidences of every shape, with one segment over all start times or none
ConfInput(data) ==
    \/ \E its \in ItemLists("conf") :
           data = [results |-> [transcripts |-> DefaultChunks, items |-> its]]
    \/ \E its \in ItemLists("conf") :
           data = [results |-> [transcripts |-> DefaultChunks, items |-> its,
                                speaker_labels |-> [segments |->
                                    <<[speaker_label |-> "spk_0",
                                       items |-> Members(0, MaxItems - 1)]>>]]]

\* inputs that are not well-typed: one segment, without speaker_label
IllInput(data) ==
    \E its \in ItemLists("seg"), seg \in BadSegments :
        data = [results |-> [transcripts |-> DefaultChunks, items |-> its,
                             speaker_labels |-> [segments |-> <<seg>>]]]

Input(data) ==
    \/ ShapeInput(data)
    \/ TurnInput(data)
    \/ PlainInput(data)
    \/ ConfInput(data)
    \/ IllInput(data)


----------------------------------------------------------------------------
(* The billing service after its module is loaded: superbills_db holds the *)
(* three sample superbills of init_sample_data.  Of a superbill the        *)
(* fields the routes decide on are kept: status, submitted_date and        *)
(* claim_number.  An id "sb<n>" is <<"sb", n>>; a date and a claim number  *)
(* are strings, sequences of symbols, and None in their place is Null.     *)

Null == <<"None">>

BillId(n) == <<"sb", n>>

Bill(status, submitted_date, claim_number) ==
    [status |-> status, submitted_date |-> submitted_date,
     claim_number |-> claim_number]

\* lines 123-179
SampleBills ==
    (BillId(1) :> Bill("pending", Null, Null))
    @@ (BillId(2) :> Bill("submitted", <<"2025", "-", "03", "-", "20">>,
                          <<"CLM", "-", "2025", "03", "20", "-", "1234">>))
    @@ (BillId(3) :> Bill("paid", <<"2025", "-", "03", "-", "19">>,
                          <<"CLM", "-", "2025", "03", "19", "-", "5678">>))

NoRequest == [op |-> None, id |-> Null]

NoResponse == [code |-> 0, id |-> Null]

BillingInit ==
    /\ superbills_db = SampleBills
    /\ billing_request = NoRequest
    /\ billing_response = NoResponse
    /\ times_submitted = [id \in DOMAIN SampleBills |-> 0]
    /\ reopened = {}

\* no job waited for; max_retries as __init__ sets it without
\* TRANSCRIBE_MAX_RETRIES
WaitIdle ==
    /\ max_retries = DefaultMaxRetries
    /\ wait_pc = "idle"
    /\ retry = 0
    /\ checks = <<>>
    /\ job_details = <<>>
    /\ wait_error = None

----------------------------------------------------------------------------
(* calendar_db after its module is loaded: appointments_db holds the three *)
(* mock appointments.  Of an appointment the fields that create, get, list *)
(* and update read or write are kept: appointment_id, title, status.  An   *)
(* id is a string, a sequence of symbols; None in its place is Null.       *)

Appointment(appointment_id, title, status) ==
    [appointment_id |-> appointment_id, title |-> title, status |-> status]

\* lines 10-50
mock_appointments ==
    << Appointment(<<"appt-", "0", "0", "1">>, "Initial Consultation", "scheduled"),
       Appointment(<<"appt-", "0", "0", "2">>, "Follow-up Session", "scheduled"),
       Appointment(<<"appt-", "0", "0", "3">>, "Therapy Session", "scheduled") >>

NoResult == [of |-> None]

\* lines 7, 53-54
CalendarInit ==
    /\ appointment_keys =
           [k \in 1 .. Len(mock_appointments) |-> mock_appointments[k].appointment_id]
    /\ appointments_db =
           [id \in {mock_appointments[k].appointment_id :
                        k \in 1 .. Len(mock_appointments)} |->
               CHOOSE appt \in {mock_appointments[k] : k \in 1 .. Len(mock_appointments)} :
                   appt.appointment_id = id]
    /\ calendar_result = NoResult
    /\ created = <<>>

----------------------------------------------------------------------------
(* The client of the API before its first request: no access token has     *)
(* been issued.  The n-th token issued is <<"token", n>>.                  *)

NoAnswer == [request |-> None, code |-> 0]

SessionInit ==
    /\ sessions = {}
    /\ issued = 0
    /\ api_response = NoAnswer
    /\ used = {}
    /\ revoked = {}

----------------------------------------------------------------------------
(* The payments service after its module is loaded: the three sample       *)
(* payments and the two sample payment methods of init_sample_data.  Of a  *)
(* payment the fields the routes read or write are kept, of a method       *)
(* user_id, name and is_default.  The ids "pay<n>" and "pm<n>" are         *)
(* <<"pay", n>> and <<"pm", n>>; an amount is a whole number of dollars; a *)
(* date, a time and a name are strings, and None in their place is Null.   *)

PayId(n) == <<"pay", n>>

MethodId(n) == <<"pm", n>>

Payment(amount, due_date, paid_date, status, payment_method, transaction_id, updated_at) ==
    [amount |-> amount, due_date |-> due_date, paid_date |-> paid_date,
     status |-> status, payment_method |-> payment_method,
     transaction_id |-> transaction_id, notes |-> Null,
     updated_at |-> updated_at]

PaymentMethod(user_id, name, is_default) ==
    [user_id |-> user_id, name |-> name, is_default |-> is_default]

\* lines 114-167
SamplePayments ==
    (PayId(1) :> Payment(150, <<"2025", "-", "04", "-", "15">>, Null, "upcoming",
                         Null, Null, <<"2025", "-", "03", "-", "25", "T", "12">>))
    @@ (PayId(2) :> Payment(200, <<"2025", "-", "04", "-", "10">>, Null, "upcoming",
                            Null, Null, <<"2025", "-", "03", "-", "28", "T", "14">>))
    @@ (PayId(3) :> Payment(150, <<"2025", "-", "03", "-", "20">>,
                            <<"2025", "-", "03", "-", "18">>, "paid",
                            <<"Credit Card">>, <<"txn_", "1", "2", "3", "4", "5">>,
                            <<"2025", "-", "03", "-", "18", "T", "09">>))

\* lines 90-111
SampleMethods ==
    (MethodId(1) :> PaymentMethod("p1", <<"Visa ending in 4242">>, TRUE))
    @@ (MethodId(2) :> PaymentMethod("p1", <<"Chase Checking Account">>, FALSE))

NoPaymentsRequest == [op |-> None, code |-> 0]

\* lines 84-85, 169-177
PaymentsInit ==
    /\ payments_db = SamplePayments
    /\ payment_methods_db = SampleMethods
    /\ payment_method_keys = <<MethodId(1), MethodId(2)>>
    /\ payments_response = NoPaymentsRequest

----------------------------------------------------------------------------
(* No function of the transcriber module has been called.                  *)

NoEvent == [type |-> "NoneType"]

HandlerIdle ==
    /\ entry = None
    /\ event = NoEvent
    /\ environ = <<>>
    /\ file_path = Null
    /\ s3_bucket = Null
    /\ s3_key = Null
    /\ h_pc = "idle"
    /\ steps = <<>>
    /\ failed = None
    /\ returned = <<>>
    /\ response = <<>>

----------------------------------------------------------------------------
(* _calculate_avg_confidence                                               *)

\* the loop without the test of line 301: items of every type
RECURSIVE ConfidenceValuesAnyType(_)
ConfidenceValuesAnyType(its) ==
    IF its = <<>> THEN <<>>
    ELSE LET item == its[Len(its)]
             rest == ConfidenceValuesAnyType(SubSeq(its, 1, Len(its) - 1))
             alternatives == Get(item, "alternatives", <<>>)
         IN  IF alternatives /= <<>> /\ "confidence" \in DOMAIN alternatives[1]
             THEN Append(rest, alternatives[1].confidence)
             ELSE rest

\* the loop of lines 300-304: confidence_values
RECURSIVE ConfidenceValues(_)
ConfidenceValues(its) ==
    IF its = <<>> THEN <<>>
    ELSE LET item == its[Len(its)]
             rest == ConfidenceValues(SubSeq(its, 1, Len(its) - 1))
             alternatives == Get(item, "alternatives", <<>>)
         IN  IF /\ Get(item, "type", None) = "pronunciation"
                /\ alternatives /= <<>>
                /\ "confidence" \in DOMAIN alternatives[1]
             THEN Append(rest, alternatives[1].confidence)
             ELSE rest

\* line 306
AvgOf(confidence_values) ==
    IF confidence_values /= <<>>
    THEN FDiv(FSum(confidence_values), Len(confidence_values))
    ELSE 0

CalculateAvgConfidence(its) == AvgOf(ConfidenceValues(its))

----------------------------------------------------------------------------
(* _process_transcript                                                     *)

\* the locals of a frame before the code has assigned them
FrameInit ==
    /\ items = <<>>
    /\ speaker_labels = <<>>
    /\ full_transcript = <<>>
    /\ word_speaker_map = EmptyMap
    /\ seg_i = 1
    /\ conversation = <<>>
    /\ current_speaker = None
    /\ current_text = <<>>
    /\ item_i = 1
    /\ formatted_text = <<>>
    /\ result = <<>>

\* no sequence of invocations
RepeatIdle ==
    /\ invocation = "only"
    /\ first_input = <<>>
    /\ first_outcome = <<>>

\* _process_transcript not invoked
TranscriptIdle ==
    /\ transcript_data = <<>>
    /\ pc = "idle"
    /\ FrameInit
    /\ RepeatIdle

Init ==
    /\ Input(transcript_data)
    /\ pc = "start"
    /\ FrameInit
    /\ RepeatIdle
    /\ BillingInit
    /\ WaitIdle
    /\ CalendarInit
    /\ SessionInit
    /\ HandlerIdle
    /\ PaymentsInit
    /\ service = None

\* the chunks joined without a separator
FullTranscriptUnspaced(transcripts) ==
    JoinStr([k \in 1 .. Len(transcripts) |-> Get(transcripts[k], "transcript", <<>>)],
            <<>>)

\* line 212
FullTranscript(transcripts) ==
    JoinStr([k \in 1 .. Len(transcripts) |-> Get(transcripts[k], "transcript", <<>>)],
            Space)

\* the map of the invocation before, kept
NewMapKept == word_speaker_map

\* line 220
NewMap == EmptyMap

\* lines 208-221: the results section, the transcript text, items and
\* segments; with segments, the empty map and the start of the loop of 221
Extract ==
    /\ pc = "start"
    /\ LET results == Get(transcript_data, "results", <<>>)
       IN  /\ full_transcript' = FullTranscript(Get(results, "transcripts", <<>>))
           /\ items' = Get(results, "items", <<>>)
           /\ speaker_labels' =
                  Get(Get(results, "speaker_labels", <<>>), "segments", <<>>)
    /\ pc' = IF speaker_labels' /= <<>> THEN "map" ELSE "plain"
    /\ IF speaker_labels' /= <<>>
       THEN word_speaker_map' = NewMap /\ seg_i' = 1
       ELSE UNCHANGED <<word_speaker_map, seg_i>>
    /\ UNCHANGED <<transcript_data, conversation, current_speaker, current_text,
                   item_i, formatted_text, result>>
    /\ UNCHANGED outside_transcript

\* the first segment to name a start time keeps it
RECURSIVE PutMembersKeepFirst(_, _, _)
PutMembersKeepFirst(map, segment, members) ==
    IF members = <<>> THEN map
    ELSE PutMembersKeepFirst(
             IF members[1].start_time \in DOMAIN map THEN map
             ELSE MapPut(map, members[1].start_time,
                         [speaker |-> segment.speaker_label,
                          end_time |-> members[1].end_time]),
             segment, Tail(members))

\* lines 222-226: the members of one segment, written into the map in order
RECURSIVE PutMembers(_, _, _)
PutMembers(map, segment, members) ==
    IF members = <<>> THEN map
    ELSE PutMembers(MapPut(map, members[1].start_time,
                           [speaker |-> segment.speaker_label,
                            end_time |-> members[1].end_time]),
                    segment, Tail(members))

\* a segment whose items the code would read as segment['items']
MapRaisesWithoutItems(segment) ==
    \/ "items" \notin DOMAIN segment
    \/ segment.items /= <<>> /\ "speaker_label" \notin DOMAIN segment

\* lines 222-224: segment['speaker_label'] is read once per member, and is a
\* KeyError when the segment has members and no speaker_label
MapRaises(segment) ==
    Get(segment, "items", <<>>) /= <<>> /\ "speaker_label" \notin DOMAIN segment

\* lines 221-226, one pass of the outer loop; the conversation state of
\* lines 229-231 is set, and the loop of 233 started, when the loop ends
MapSegment ==
    /\ pc = "map"
    /\ LET segment == speaker_labels[seg_i]
           members == Get(segment, "items", <<>>)
       IN  IF MapRaises(segment)
           THEN \* KeyError, caught at 292 and raised as TranscriptionError
                /\ pc' = "raised"
                /\ UNCHANGED <<word_speaker_map, seg_i>>
           ELSE /\ word_speaker_map' = PutMembers(word_speaker_map, segment, members)
                /\ seg_i' = seg_i + 1
                /\ pc' = IF seg_i = Len(speaker_labels) THEN "walk" ELSE "map"
    /\ IF pc' = "walk"
       THEN /\ conversation' = <<>>
            /\ current_speaker' = None
            /\ current_text' = <<>>
            /\ item_i' = 1
       ELSE UNCHANGED <<conversation, current_speaker, current_text, item_i>>
    /\ UNCHANGED <<transcript_data, items, speaker_labels, full_transcript,
                   formatted_text, result>>
    /\ UNCHANGED outside_transcript

\* a turn that carries the role name of line 268 instead of the label
TurnWithRole(speaker, text) ==
    [speaker |-> IF speaker = "spk_0" THEN "Doctor" ELSE "Patient",
     text |-> JoinStr(text, Space)]

\* lines 244-247 and 260-263
Turn(speaker, text) == [speaker |-> speaker, text |-> JoinStr(text, Space)]

\* line 239
Resolved(item) ==
    /\ "start_time" \in DOMAIN item
    /\ item.start_time \in DOMAIN word_speaker_map

\* the test of line 243 without its last conjunct
SpeakerChangedAnyBuffer(speaker) ==
    speaker /= current_speaker /\ current_speaker /= None

\* line 243
SpeakerChanged(speaker) ==
    speaker /= current_speaker /\ current_speaker /= None /\ current_text /= <<>>

\* the word put in front of the buffer instead of at its end
WithWordFirst(text, item) ==
    LET alternatives == Get(item, "alternatives", <<>>)
    IN  IF alternatives /= <<>>
        THEN <<Get(alternatives[1], "content", <<>>)>> \o text
        ELSE text

\* lines 253-256
WithWord(text, item) ==
    LET alternatives == Get(item, "alternatives", <<>>)
    IN  IF alternatives /= <<>>
        THEN Append(text, Get(alternatives[1], "content", <<>>))
        ELSE text

\* lines 233-256, one pass of the loop
WalkItem ==
    /\ pc = "walk"
    /\ item_i <= Len(items)
    /\ LET item == items[item_i]
       IN  IF Get(item, "type", None) /= "pronunciation"
           THEN UNCHANGED <<conversation, current_speaker, current_text>>
           ELSE IF Resolved(item)
           THEN LET speaker == word_speaker_map[item.start_time].speaker
                    closed == SpeakerChanged(speaker)
                IN  /\ conversation' =
                           IF closed
                           THEN Append(conversation, Turn(current_speaker, current_text))
                           ELSE conversation
                    /\ current_speaker' = speaker
                    /\ current_text' =
                           WithWord(IF closed THEN <<>> ELSE current_text, item)
           ELSE /\ current_text' = WithWord(current_text, item)
                /\ UNCHANGED <<conversation, current_speaker>>
    /\ item_i' = item_i + 1
    /\ UNCHANGED <<transcript_data, pc, items, speaker_labels, full_transcript,
                   word_speaker_map, seg_i, formatted_text, result>>
    /\ UNCHANGED outside_transcript

\* line 259
LastOpen == Truthy(current_speaker) /\ current_text /= <<>>

\* lines 258-263: the last segment
AddLast ==
    /\ pc = "walk"
    /\ item_i > Len(items)
    /\ conversation' =
           IF LastOpen
           THEN Append(conversation, Turn(current_speaker, current_text))
           ELSE conversation
    /\ pc' = "format"
    /\ UNCHANGED <<transcript_data, items, speaker_labels, full_transcript,
                   word_speaker_map, seg_i, current_speaker, current_text,
                   item_i, formatted_text, result>>
    /\ UNCHANGED outside_transcript

\* lines 268-269
FormatLine(segment) ==
    <<IF segment.speaker = "spk_0" THEN "Doctor" ELSE "Patient", ":", " ">>
    \o segment.text

\* lines 265-271
Format ==
    /\ pc = "format"
    /\ formatted_text' =
           JoinStr([k \in 1 .. Len(conversation) |-> FormatLine(conversation[k])],
                   Newline)
    /\ pc' = "meta"
    /\ UNCHANGED <<transcript_data, items, speaker_labels, full_transcript,
                   word_speaker_map, seg_i, conversation, current_speaker,
                   current_text, item_i, result>>
    /\ UNCHANGED outside_transcript

\* lines 272-274: no speaker labels
UseFullTranscript ==
    /\ pc = "plain"
    /\ formatted_text' = full_transcript
    /\ pc' = "meta"
    /\ UNCHANGED <<transcript_data, items, speaker_labels, full_transcript,
                   word_speaker_map, seg_i, conversation, current_speaker,
                   current_text, item_i, result>>
    /\ UNCHANGED outside_transcript

\* one speaker counted per segment
SpeakersIdentifiedPerSegment ==
    IF speaker_labels /= <<>> THEN Len(speaker_labels) ELSE 0

\* line 283
SpeakersIdentified ==
    IF speaker_labels /= <<>>
    THEN Cardinality({speaker_labels[k].speaker_label : k \in 1 .. Len(speaker_labels)})
    ELSE 0

\* the conversation returned whether or not there are segments
ReturnedConversationAlways == Some(conversation)

\* line 288
ReturnedConversation ==
    IF speaker_labels /= <<>> THEN Some(conversation) ELSE NoConversation

\* lines 276-290; of the metadata, confidence and speakers_identified are
\* kept (duration_seconds, language, job_name and job_status are copied from
\* the input)
Return ==
    /\ pc = "meta"
    /\ IF \E k \in 1 .. Len(speaker_labels) :
              "speaker_label" \notin DOMAIN speaker_labels[k]
       THEN \* KeyError at 283, caught at 292 and raised as TranscriptionError
            /\ pc' = "raised"
            /\ UNCHANGED result
       ELSE /\ result' =
                   [transcript |-> formatted_text,
                    conversation |-> ReturnedConversation,
                    metadata |-> [confidence |-> CalculateAvgConfidence(items),
                                  speakers_identified |-> SpeakersIdentified]]
            /\ pc' = "done"
    /\ UNCHANGED <<transcript_data, items, speaker_labels, full_transcript,
                   word_speaker_map, seg_i, conversation, current_speaker,
                   current_text, item_i, formatted_text>>
    /\ UNCHANGED outside_transcript

Next ==
    \/ Extract
    \/ MapSegment
    \/ WalkItem
    \/ AddLast
    \/ Format
    \/ UseFullTranscript
    \/ Return

Spec == Init /\ [][Next]_vars

----------------------------------------------------------------------------
(* _process_transcript invoked again and again on one transcriber.  A call *)
(* has a frame of its own; here a local that the code has not yet assigned *)
(* holds what the invocation before left in it, so that a read before the  *)
(* assignment would show as an outcome that depends on the invocations     *)
(* before.                                                                 *)

frame == <<items, speaker_labels, full_transcript, word_speaker_map, seg_i,
           conversation, current_speaker, current_text, item_i,
           formatted_text, result>>

Ended == pc \in {"done", "raised"}

\* what an invocation that has ended gave its caller
Outcome ==
    IF pc = "raised" THEN [raised |-> "TranscriptionError"] ELSE [returned |-> result]

\* the first argument: items of every shape with speakers, without
\* segments, or with a segment that is not well-typed
RepeatInput(data) == TurnInput(data) \/ PlainInput(data) \/ IllInput(data)

\* the arguments of the invocations in between: one speaker over all the
\* words; a second speaker over the last start time only; no segments; a
\* segment without speaker_label
BetweenInputs ==
    {[results |-> [transcripts |-> DefaultChunks, items |-> WordItems(MaxItems),
                   speaker_labels |-> [segments |->
                       <<[speaker_label |-> "spk_1",
                          items |-> Members(0, MaxItems - 1)]>>]]],
     [results |-> [transcripts |-> DefaultChunks, items |-> WordItems(MaxItems),
                   speaker_labels |-> [segments |->
                       <<[speaker_label |-> "spk_0",
                          items |-> Members(MaxItems - 1, MaxItems - 1)]>>]]],
     [results |-> [transcripts |-> <<[transcript |-> <<"a">>]>>,
                   items |-> WordItems(1)]],
     [results |-> [transcripts |-> DefaultChunks, items |-> WordItems(1),
                   speaker_labels |-> [segments |->
                       <<[speaker_label |-> "spk_1", items |-> Members(0, 0)],
                         [items |-> Members(0, 0)]>>]]]}

InitRepeat ==
    /\ RepeatInput(transcript_data)
    /\ pc = "start"
    /\ FrameInit
    /\ invocation = "first"
    /\ first_input = transcript_data
    /\ first_outcome = <<>>
    /\ BillingInit
    /\ WaitIdle
    /\ CalendarInit
    /\ SessionInit
    /\ HandlerIdle
    /\ PaymentsInit
    /\ service = None

\* line 196: another document is passed
InvokeBetween ==
    /\ Ended
    /\ invocation \in {"first", "between"}
    /\ \E data \in BetweenInputs : transcript_data' = data
    /\ pc' = "start"
    /\ invocation' = "between"
    /\ first_outcome' = IF invocation = "first" THEN Outcome ELSE first_outcome
    /\ UNCHANGED <<frame, first_input>>
    /\ UNCHANGED outside_repeat

\* line 196: the first document is passed again
InvokeAgain ==
    /\ Ended
    /\ invocation \in {"first", "between"}
    /\ transcript_data' = first_input
    /\ pc' = "start"
    /\ invocation' = "again"
    /\ first_outcome' = IF invocation = "first" THEN Outcome ELSE first_outcome
    /\ UNCHANGED <<frame, first_input>>
    /\ UNCHANGED outside_repeat

NextRepeat ==
    \/ Extract
    \/ MapSegment
    \/ WalkItem
    \/ AddLast
    \/ Format
    \/ UseFullTranscript
    \/ Return
    \/ InvokeBetween
    \/ InvokeAgain

SpecRepeat == InitRepeat /\ [][NextRepeat]_vars

----------------------------------------------------------------------------
(* The billing routes on superbills: create_superbill, get_superbill,      *)
(* update_superbill and submit_superbill.  A request names the sample     *)
(* superbill that is pending, or the first superbill to be created (an id  *)
(* that is unknown until then); the other sample superbills stand by.      *)

StatusValues == {"pending", "submitted", "paid", None}

RequestIds == {BillId(1), BillId(Cardinality(DOMAIN SampleBills) + 1)}

\* bodies of update_superbill: the fields that are set (exclude_unset)
Updates ==
    {[status |-> st] : st \in StatusValues}
    \cup {[claim_number |-> Null],
          [status |-> "pending", submitted_date |-> Null, claim_number |-> Null]}

\* datetime.now().strftime("%Y-%m-%d")
Dates == {<<"2025", "-", "03", "-", "26">>}

\* uuid.uuid4().hex
UuidHex == {<<"a", "1", "b", "2", "c", "3">>, <<"0", "d", "4", "e", "5", "f">>}

UpperChar(c) ==
    CASE c = "a" -> "A" [] c = "b" -> "B" [] c = "c" -> "C"
      [] c = "d" -> "D" [] c = "e" -> "E" [] c = "f" -> "F" [] OTHER -> c

Upper(str) == [k \in 1 .. Len(str) |-> UpperChar(str[k])]

\* str.replace(c, '')
Without(str, c) == SelectSeq(str, LAMBDA x : x /= c)

\* line 296
ClaimNumber(today, hex) ==
    <<"CLM", "-">> \o Without(today, "-") \o <<"-">> \o Upper(SubSeq(hex, 1, 4))

InitBilling ==
    /\ TranscriptIdle
    /\ BillingInit
    /\ WaitIdle
    /\ CalendarInit
    /\ SessionInit
    /\ HandlerIdle
    /\ PaymentsInit
    /\ service = None

\* lines 235-250: the id is "sb" and the number of superbills plus one
CreateSuperbill ==
    /\ Cardinality(DOMAIN superbills_db) < MaxBills
    /\ LET id == BillId(Cardinality(DOMAIN superbills_db) + 1)
       IN  /\ superbills_db' = MapPut(superbills_db, id, Bill("pending", Null, Null))
           /\ billing_request' = [op |-> "create", id |-> Null]
           /\ billing_response' = [code |-> 201, id |-> id]
           /\ times_submitted' =
                  MapPut(times_submitted, id, Get(times_submitted, id, 0))
    /\ UNCHANGED reopened
    /\ UNCHANGED outside_billing

\* lines 224-233
GetSuperbill ==
    /\ \E id \in RequestIds :
           /\ billing_request' = [op |-> "get", id |-> id]
           /\ billing_response' =
                  IF id \notin DOMAIN superbills_db
                  THEN [code |-> 404, id |-> Null]
                  ELSE [code |-> 200, id |-> id]
    /\ UNCHANGED <<superbills_db, times_submitted, reopened>>
    /\ UNCHANGED outside_billing

\* lines 265-267: setattr for every field that is set
Updated(bill, update_data) ==
    [key \in DOMAIN bill |->
        IF key \in DOMAIN update_data THEN update_data[key] ELSE bill[key]]

\* lines 252-272
UpdateSuperbill ==
    /\ \E id \in RequestIds, updates \in Updates :
           /\ billing_request' = [op |-> "update", id |-> id]
           /\ IF id \notin DOMAIN superbills_db
              THEN /\ billing_response' = [code |-> 404, id |-> Null]
                   /\ UNCHANGED <<superbills_db, reopened>>
              ELSE /\ superbills_db' =
                          [superbills_db EXCEPT ![id] = Updated(@, updates)]
                   /\ billing_response' = [code |-> 200, id |-> id]
                   /\ reopened' =
                          IF "status" \in DOMAIN updates /\ updates.status = "pending"
                          THEN reopened \cup {id}
                          ELSE reopened
    /\ UNCHANGED times_submitted
    /\ UNCHANGED outside_billing

\* no superbill is refused
SubmitRefusedNever(bill) == FALSE

\* line 286
SubmitRefused(bill) == bill.status /= "pending"

\* the status set, the claim number left as it was
SubmittedWithoutClaim(bill, today, hex) ==
    [bill EXCEPT !.status = "submitted", !.submitted_date = today]

\* lines 293-296
Submitted(bill, today, hex) ==
    [bill EXCEPT !.status = "submitted", !.submitted_date = today,
                 !.claim_number = ClaimNumber(today, hex)]

\* lines 274-299
SubmitSuperbill ==
    /\ \E id \in RequestIds, today \in Dates, hex \in UuidHex :
           /\ billing_request' = [op |-> "submit", id |-> id]
           /\ IF id \notin DOMAIN superbills_db
              THEN /\ billing_response' = [code |-> 404, id |-> Null]
                   /\ UNCHANGED <<superbills_db, times_submitted, reopened>>
              ELSE IF SubmitRefused(superbills_db[id])
              THEN /\ billing_response' = [code |-> 400, id |-> Null]
                   /\ UNCHANGED <<superbills_db, times_submitted, reopened>>
              ELSE /\ superbills_db' =
                          [superbills_db EXCEPT ![id] = Submitted(@, today, hex)]
                   /\ billing_response' = [code |-> 200, id |-> id]
                   /\ times_submitted' =
                          [times_submitted EXCEPT ![id] = IF @ = 0 THEN 1 ELSE 2]
                   /\ reopened' = reopened \ {id}
    /\ UNCHANGED outside_billing

NextBilling ==
    \/ CreateSuperbill
    \/ GetSuperbill
    \/ UpdateSuperbill
    \/ SubmitSuperbill

SpecBilling == InitBilling /\ [][NextBilling]_vars

----------------------------------------------------------------------------
(* _wait_for_transcription_job: up to max_retries calls of                 *)
(* get_transcription_job.  A call gives a response or raises; a response   *)
(* is a dict that has, or lacks, TranscriptionJob, TranscriptionJobStatus  *)
(* and the transcript URI.  A string such as a URI is a sequence of        *)
(* symbols.                                                                *)

GoodUri == <<"s3://", "out", "/", "job", ".json">>

JobsOf(status) ==
    {[TranscriptionJobStatus |-> status]}
    \cup IF status = "COMPLETED"
         THEN {[TranscriptionJobStatus |-> status,
                Transcript |-> [TranscriptFileUri |-> uri]] :
                   uri \in {GoodUri, <<"https://", "out", "/", "job", ".json">>, <<>>}}
              \cup {[TranscriptionJobStatus |-> status,
                     Transcript |-> [RedactedTranscriptFileUri |-> GoodUri]]}
         ELSE IF status = "FAILED"
         THEN {[TranscriptionJobStatus |-> status, FailureReason |-> "bad audio"]}
         ELSE {}

Statuses == {"COMPLETED", "FAILED", "IN_PROGRESS", "QUEUED"}

\* what a call of get_transcription_job can give
CheckOutcomes ==
    {[response |-> [TranscriptionJob |-> job]] :
        job \in UNION {JobsOf(status) : status \in Statuses}}
    \cup {[response |-> [TranscriptionJob |-> [TranscriptionJobName |-> "job"]]],
          [response |-> [ResponseMetadata |-> "ok"]],
          [raises |-> "ClientError"],
          [raises |-> "EndpointConnectionError"]}

\* line 137: the subscripts find their keys
HasStatus(outcome) ==
    /\ "response" \in DOMAIN outcome
    /\ "TranscriptionJob" \in DOMAIN outcome.response
    /\ "TranscriptionJobStatus" \in DOMAIN outcome.response.TranscriptionJob

StatusOf(outcome) == outcome.response.TranscriptionJob.TranscriptionJobStatus

Reports(outcome, status) == HasStatus(outcome) /\ StatusOf(outcome) = status

\* a job that failed taken as one still in progress
WaitErrorFailedIgnored(outcome) ==
    IF "raises" \in DOMAIN outcome
    THEN IF outcome.raises = "ClientError" THEN "TranscriptionError"
         ELSE outcome.raises
    ELSE IF ~HasStatus(outcome) THEN "KeyError"
    ELSE None

\* lines 142-145 and 152-154: the exception one pass of the loop raises, or
\* None; only ClientError is caught
WaitErrorOf(outcome) ==
    IF "raises" \in DOMAIN outcome
    THEN IF outcome.raises = "ClientError" THEN "TranscriptionError"
         ELSE outcome.raises
    ELSE IF ~HasStatus(outcome) THEN "KeyError"
    ELSE IF StatusOf(outcome) = "FAILED" THEN "TranscriptionError"
    ELSE None

InitWait ==
    /\ TranscriptIdle
    /\ BillingInit
    /\ CalendarInit
    /\ SessionInit
    /\ HandlerIdle
    /\ PaymentsInit
    /\ service = None
    /\ max_retries \in 0 .. MaxRetries
    /\ wait_pc = "poll"
    /\ retry = 0
    /\ checks = <<>>
    /\ job_details = <<>>
    /\ wait_error = None

\* one pass more than the budget
BudgetLeftInclusive == retry <= max_retries

\* line 131: range(self.max_retries) has a next value
BudgetLeft == retry < max_retries

\* lines 131-154, one pass of the loop
CheckStatus ==
    /\ wait_pc = "poll"
    /\ BudgetLeft
    /\ \E outcome \in CheckOutcomes :
           /\ checks' = Append(checks, outcome)
           /\ IF Reports(outcome, "COMPLETED")
              THEN /\ wait_pc' = "returned"
                   /\ job_details' = outcome.response.TranscriptionJob
                   /\ UNCHANGED <<retry, wait_error>>
              ELSE IF WaitErrorOf(outcome) /= None
              THEN /\ wait_pc' = "raised"
                   /\ wait_error' = WaitErrorOf(outcome)
                   /\ UNCHANGED <<retry, job_details>>
              ELSE /\ retry' = retry + 1
                   /\ UNCHANGED <<wait_pc, job_details, wait_error>>
    /\ UNCHANGED max_retries
    /\ UNCHANGED outside_wait

\* line 156: the loop has ended
GiveUp ==
    /\ wait_pc = "poll"
    /\ ~BudgetLeft
    /\ wait_pc' = "raised"
    /\ wait_error' = "TranscriptionError"
    /\ UNCHANGED <<max_retries, retry, checks, job_details>>
    /\ UNCHANGED outside_wait

NextWait ==
    \/ CheckStatus
    \/ GiveUp

SpecWait == InitWait /\ [][NextWait]_vars

----------------------------------------------------------------------------
(* What the properties are stated in: the input as given, and the output   *)
(* read back (a text split into its words).                                *)

InputResults ==
    IF "results" \in DOMAIN transcript_data THEN transcript_data.results ELSE <<>>

InputItems ==
    IF "items" \in DOMAIN InputResults THEN InputResults.items ELSE <<>>

InputSegments ==
    IF "speaker_labels" \in DOMAIN InputResults
       /\ "segments" \in DOMAIN InputResults.speaker_labels
    THEN InputResults.speaker_labels.segments
    ELSE <<>>

InputChunks ==
    IF "transcripts" \in DOMAIN InputResults THEN InputResults.transcripts ELSE <<>>

HasSegments == InputSegments /= <<>>

SegmentTimes(seg) ==
    IF "items" \in DOMAIN seg
    THEN {seg.items[k].start_time : k \in 1 .. Len(seg.items)}
    ELSE {}

MemberTimes == UNION {SegmentTimes(InputSegments[k]) : k \in 1 .. Len(InputSegments)}

SegmentsWith(t) == {k \in 1 .. Len(InputSegments) : t \in SegmentTimes(InputSegments[k])}

LastSegmentWith(t) == CHOOSE k \in SegmentsWith(t) : \A j \in SegmentsWith(t) : j <= k

IsPron(item) == "type" \in DOMAIN item /\ item.type = "pronunciation"

HasBestText(item) == "alternatives" \in DOMAIN item /\ item.alternatives /= <<>>

BestText(item) == item.alternatives[1].content

Matched(item) == "start_time" \in DOMAIN item /\ item.start_time \in MemberTimes

\* the length of the longest prefix of s without the symbol c
PrefixLen(s, c) ==
    IF \E i \in 1 .. Len(s) : s[i] = c
    THEN (CHOOSE i \in 1 .. Len(s) : s[i] = c /\ \A j \in 1 .. (i - 1) : s[j] /= c) - 1
    ELSE Len(s)

\* the maximal runs of symbols other than c, in order
RECURSIVE TokensBy(_, _)
TokensBy(s, c) ==
    IF s = <<>> THEN <<>>
    ELSE IF s[1] = c THEN TokensBy(Tail(s), c)
    ELSE LET n == PrefixLen(s, c)
         IN  <<SubSeq(s, 1, n)>> \o TokensBy(SubSeq(s, n + 1, Len(s)), c)

Tokens(s) == TokensBy(s, " ")

\* the words of the turns, turn by turn
RECURSIVE TurnWords(_)
TurnWords(conv) ==
    IF conv = <<>> THEN <<>>
    ELSE Tokens(conv[1].text) \o TurnWords(Tail(conv))

\* each word of the turns with the speaker of its turn
RECURSIVE SpokenWords(_)
SpokenWords(conv) ==
    IF conv = <<>> THEN <<>>
    ELSE LET w == Tokens(conv[1].text)
         IN  [k \in 1 .. Len(w) |-> [speaker |-> conv[1].speaker, word |-> w[k]]]
             \o SpokenWords(Tail(conv))

Returned == pc = "done"

ReturnedTurns == IF result.conversation = NoConversation THEN <<>> ELSE result.conversation[1]

----------------------------------------------------------------------------
(* C1.  With speaker segments, the words of the turns, in turn order, are  *)
(* exactly the best texts of the pronunciation items whose start_time is   *)
(* the start_time of some segment member, in item order: an item matching  *)
(* no member gives its word to no turn.                                    *)

ResolvedItems ==
    SelectSeq(InputItems, LAMBDA it : IsPron(it) /\ HasBestText(it) /\ Matched(it))

\* C1: the words of the turns are exactly the best texts of the matched
\* pronunciation items, in item order
C1_OnlyMatchedWordsInTurns ==
    (Returned /\ HasSegments) =>
        TurnWords(ReturnedTurns)
            = [k \in 1 .. Len(ResolvedItems) |-> BestText(ResolvedItems[k])]

----------------------------------------------------------------------------
(* C2.  With speaker segments, when every pronunciation item has a best    *)
(* text and a start_time matching a segment member, the conversation is    *)
(* the sequence of maximal runs of consecutive pronunciation items of one  *)
(* speaker: turn by turn its words with their turn's raw speaker label are *)
(* the pronunciation items' words with their speakers, in item order; each *)
(* turn has a word; adjacent turns differ in speaker; the words of a turn  *)
(* are joined by single spaces.  Punctuation items are in no turn.         *)

PronItems == SelectSeq(InputItems, IsPron)

AllPronResolved ==
    \A k \in 1 .. Len(PronItems) : HasBestText(PronItems[k]) /\ Matched(PronItems[k])

SingleSpaced(text) == Len(text) = 2 * Len(Tokens(text)) - 1

\* C2: the conversation is the sequence of maximal single-speaker runs of
\* the pronunciation items, with raw labels and single-spaced words
C2_MaximalRuns ==
    (Returned /\ HasSegments /\ AllPronResolved) =>
        /\ SpokenWords(ReturnedTurns)
               = [k \in 1 .. Len(PronItems) |->
                     [speaker |-> InputSegments[LastSegmentWith(PronItems[k].start_time)]
                                      .speaker_label,
                      word |-> BestText(PronItems[k])]]
        /\ \A k \in 1 .. Len(ReturnedTurns) :
               /\ Tokens(ReturnedTurns[k].text) /= <<>>
               /\ SingleSpaced(ReturnedTurns[k].text)
               /\ k > 1 => ReturnedTurns[k].speaker /= ReturnedTurns[k - 1].speaker

C2_Witness ==
    /\ Returned /\ HasSegments /\ AllPronResolved
    /\ Len(ReturnedTurns) = 2
    /\ Len(Tokens(ReturnedTurns[1].text)) = 2
    /\ ReturnedTurns[1].speaker = "spk_0"
    /\ ReturnedTurns[2].speaker = "spk_1"

----------------------------------------------------------------------------
(* C3.  Every turn, of the conversation as it is built and as returned,    *)
(* has at least one word, a non-empty text, and as speaker the label of    *)
(* some speaker segment (never None).                                      *)

SegmentLabels ==
    {InputSegments[k].speaker_label :
        k \in {j \in 1 .. Len(InputSegments) : "speaker_label" \in DOMAIN InputSegments[j]}}

GoodTurn(turn) ==
    /\ Tokens(turn.text) /= <<>>
    /\ turn.text /= <<>>
    /\ turn.speaker /= None
    /\ turn.speaker \in SegmentLabels

----------------------------------------------------------------------------
(* C4.  No two adjacent turns of the returned conversation have the same   *)
(* speaker label.                                                          *)

\* C4: adjacent turns of the returned conversation differ in speaker
C4_AdjacentTurnsDiffer ==
    Returned =>
        \A k \in 2 .. Len(ReturnedTurns) :
            ReturnedTurns[k].speaker /= ReturnedTurns[k - 1].speaker

----------------------------------------------------------------------------
(* C5 as stated.  The number of space-separated tokens of the returned     *)
(* transcript equals the number of entries of items.                       *)

ChunkText(chunk) == IF "transcript" \in DOMAIN chunk THEN chunk.transcript ELSE <<>>

RECURSIVE ChunkTokens(_)
ChunkTokens(chunks) ==
    IF chunks = <<>> THEN <<>>
    ELSE Tokens(ChunkText(chunks[1])) \o ChunkTokens(Tail(chunks))

Lines(text) == TokensBy(text, "\n")

RoleOf(speaker) == IF speaker = "spk_0" THEN "Doctor" ELSE "Patient"

----------------------------------------------------------------------------
(* C6.  Without speaker segments (the list empty, or speaker_labels or its *)
(* segments missing) the returned conversation is None and the speaker     *)
(* count 0; with speaker segments the conversation is a list, possibly     *)
(* empty, never None.                                                      *)

\* C6: conversation None and speaker count 0 without segments; a list with
\* segments
C6_ConversationIffSegments ==
    Returned =>
        /\ ~HasSegments =>
               /\ result.conversation = NoConversation
               /\ result.metadata.speakers_identified = 0
        /\ HasSegments =>
               /\ result.conversation /= NoConversation
               /\ Len(result.conversation) = 1

C6_Witness ==
    /\ Returned
    /\ "speaker_labels" \notin DOMAIN InputResults
    /\ Len(InputItems) = 2
    /\ result.conversation = NoConversation

----------------------------------------------------------------------------
(* C7.  When two segments both have a member with the same start_time, the *)
(* word at that start_time is attributed to the speaker of the segment     *)
(* that is later in the input: the map holds that speaker, and the word is *)
(* in a turn of that speaker.                                              *)

MapBuilt == pc \in {"walk", "format", "meta", "done"}

LaterSpeaker(t) == InputSegments[LastSegmentWith(t)].speaker_label

\* C7: a start time named by two segments belongs to the later segment's
\* speaker
C7_LaterSegmentWins ==
    /\ MapBuilt =>
           /\ DOMAIN word_speaker_map = MemberTimes
           /\ \A t \in MemberTimes : word_speaker_map[t].speaker = LaterSpeaker(t)
    /\ Returned =>
           \A k \in 1 .. Len(InputItems) :
               LET item == InputItems[k]
               IN  (/\ IsPron(item) /\ HasBestText(item) /\ Matched(item)
                    /\ Cardinality(SegmentsWith(item.start_time)) >= 2)
                   => \E w \in 1 .. Len(SpokenWords(ReturnedTurns)) :
                          /\ SpokenWords(ReturnedTurns)[w].word = BestText(item)
                          /\ SpokenWords(ReturnedTurns)[w].speaker
                                 = LaterSpeaker(item.start_time)

C7_Witness ==
    /\ Returned
    /\ Len(InputSegments) = 2
    /\ InputSegments[1].speaker_label = "spk_1"
    /\ InputSegments[2].speaker_label = "spk_0"
    /\ 0 \in SegmentTimes(InputSegments[1]) \cap SegmentTimes(InputSegments[2])
    /\ ReturnedTurns /= <<>>
    /\ ReturnedTurns[1] = [speaker |-> "spk_0", text |-> Content(0)]

----------------------------------------------------------------------------
(* C8 as stated.  The average confidence lies between the smallest and the *)
(* largest confidence of the pronunciation items that carry one, and is 0  *)
(* when there is none.                                                     *)

CountedItems ==
    SelectSeq(InputItems,
              LAMBDA it : /\ IsPron(it) /\ HasBestText(it)
                          /\ "confidence" \in DOMAIN it.alternatives[1])

CountedConfidences ==
    [k \in 1 .. Len(CountedItems) |-> CountedItems[k].alternatives[1].confidence]

RECURSIVE ExactSum(_)
ExactSum(values) == IF values = <<>> THEN 0 ELSE values[1] + ExactSum(Tail(values))

AbsDiff(x, y) == IF x >= y THEN x - y ELSE y - x

----------------------------------------------------------------------------
(* C9.  The speaker count is the number of distinct speaker labels of the  *)
(* speaker segments, whether or not a word was attributed to them; the     *)
(* speakers of the conversation are never more.                            *)

TurnSpeakers == {ReturnedTurns[k].speaker : k \in 1 .. Len(ReturnedTurns)}

\* C9: the speaker count is the number of distinct segment labels and bounds
\* the speakers of the conversation
C9_SpeakerCountIsDistinctLabels ==
    Returned =>
        /\ result.metadata.speakers_identified = Cardinality(SegmentLabels)
        /\ Cardinality(TurnSpeakers) <= result.metadata.speakers_identified

C9_Witness ==
    /\ Returned
    /\ Len(InputSegments) = 2
    /\ Cardinality(SegmentLabels) = 1
    /\ result.metadata.speakers_identified = 1
    /\ ReturnedTurns = <<>>
    /\ Len(InputItems) = 2

----------------------------------------------------------------------------
(* C10 as stated.  On well-typed input _process_transcript never raises    *)
(* and returns; with empty items and no segments the result is transcript  *)
(* "", conversation None, average confidence 0.0 and speaker count 0.      *)

WellTyped == \A k \in 1 .. Len(InputSegments) : "speaker_label" \in DOMAIN InputSegments[k]

Raised == pc = "raised"

\* the function is in progress and its next step can be taken; at the last
\* step, Return, both branches are total
CanProceed ==
    \/ pc = "meta"
    \/ ENABLED (Extract \/ MapSegment \/ WalkItem \/ AddLast \/ Format
                \/ UseFullTranscript)

EmptyResult ==
    [transcript |-> <<>>, conversation |-> NoConversation,
     metadata |-> [confidence |-> 0, speakers_identified |-> 0]]

NoChunkText ==
    /\ Len(InputChunks) <= 1
    /\ \A k \in 1 .. Len(InputChunks) : ChunkText(InputChunks[k]) = <<>>

----------------------------------------------------------------------------
(* C12.  The words of the conversation, read turn by turn, are best texts  *)
(* of pronunciation items and occur in the order of their items; no item   *)
(* gives a word twice.  The same holds of the conversation as it is built, *)
(* followed, while the items are walked, by the words of the open turn.    *)
(* (Every item of the inputs has a word of its own, so a word names its    *)
(* item.)                                                                  *)

ItemsOfWord(w) ==
    {k \in 1 .. Len(InputItems) :
        /\ IsPron(InputItems[k]) /\ HasBestText(InputItems[k])
        /\ BestText(InputItems[k]) = w}

InItemOrder(words) ==
    /\ \A w \in 1 .. Len(words) : Cardinality(ItemsOfWord(words[w])) = 1
    /\ \A v, w \in 1 .. Len(words) :
           v < w => \A j \in ItemsOfWord(words[v]), k \in ItemsOfWord(words[w]) : j < k

\* C12: the words of the turns occur in the order of their items, each item
\* at most once
C12_ItemOrderPreserved ==
    /\ pc = "walk" => InItemOrder(TurnWords(conversation) \o current_text)
    /\ pc \in {"format", "meta"} => InItemOrder(TurnWords(conversation))
    /\ Returned => InItemOrder(TurnWords(ReturnedTurns))

C12_Witness ==
    /\ Returned
    /\ Len(ReturnedTurns) = 2
    /\ Len(TurnWords(ReturnedTurns)) = 3
    /\ \E k \in 1 .. Len(InputItems) : IsPron(InputItems[k]) /\ ~Matched(InputItems[k])
    /\ TurnWords(ReturnedTurns) = <<Content(0), Content(1), Content(2)>>

----------------------------------------------------------------------------
(* C11.  _process_transcript is deterministic and stateless: an invocation *)
(* on the document of the first invocation, directly after it or after     *)
(* invocations on other documents, ends as the first did (the same result, *)
(* or TranscriptionError both times); throughout an invocation its         *)
(* argument is the document that was passed.                               *)

\* C11: the same document gives the same outcome whatever was invoked in
\* between, and the argument is never modified
C11_SameInputSameOutcome ==
    /\ invocation \in {"first", "again"} => transcript_data = first_input
    /\ invocation = "between" => transcript_data \in BetweenInputs
    /\ (invocation = "again" /\ Ended) => Outcome = first_outcome

C11_Witness ==
    /\ invocation = "again"
    /\ pc = "done"
    /\ ~HasSegments
    /\ Len(InputItems) = 2
    /\ word_speaker_map /= EmptyMap
    /\ conversation /= <<>>
    /\ result.conversation = NoConversation
    /\ [returned |-> result] = first_outcome

----------------------------------------------------------------------------
(* C13 as stated.  Once submit_superbill has succeeded on a superbill, no  *)
(* later submit_superbill on it succeeds, whatever create_superbill and    *)
(* update_superbill calls lie in between.                                  *)

\* C13, as stated: submit_superbill succeeds at most once on a superbill
C13_NeverSubmittedTwice ==
    \A id \in DOMAIN times_submitted : times_submitted[id] <= 1

(* C13 as amended.  Once submit_superbill has succeeded on a superbill, a  *)
(* later submit_superbill on it succeeds only when an update_superbill     *)
(* call since then has set its status to "pending"; no create_superbill    *)
(* call lets it succeed.                                                   *)

SubmitSucceeds(id) ==
    /\ billing_request' = [op |-> "submit", id |-> id]
    /\ billing_response'.code = 200

\* C13, as amended: a second submit succeeds only after an update has set
\* the status back to "pending"
C13_ResubmittedOnlyWhenReopened ==
    [][\A id \in DOMAIN times_submitted :
          (SubmitSucceeds(id) /\ times_submitted[id] >= 1) => id \in reopened]_vars

C13_Witness ==
    /\ billing_request = [op |-> "submit", id |-> BillId(1)]
    /\ billing_response.code = 200
    /\ times_submitted[BillId(1)] = 2
    /\ Cardinality(DOMAIN superbills_db) = MaxBills
    /\ superbills_db[BillId(1)].status = "submitted"

----------------------------------------------------------------------------
(* C14.  submit_superbill answers 200 exactly when the superbill exists    *)
(* and its status is "pending", and then sets the status to "submitted", a *)
(* submitted_date and a claim_number and leaves the other superbills as    *)
(* they were; it answers 404 exactly when the id is unknown and 400        *)
(* exactly when the superbill exists with any other status, and in both    *)
(* cases leaves superbills_db as it was.                                   *)

SubmitAnswered(id, code) ==
    LET known == id \in DOMAIN superbills_db
        pending == known /\ superbills_db[id].status = "pending"
    IN  /\ code \in {200, 400, 404}
        /\ code = 200 <=> pending
        /\ code = 404 <=> ~known
        /\ code = 400 <=> (known /\ ~pending)
        /\ code = 200 =>
               /\ DOMAIN superbills_db' = DOMAIN superbills_db
               /\ superbills_db'[id].status = "submitted"
               /\ superbills_db'[id].submitted_date \in Dates
               /\ superbills_db'[id].claim_number /= Null
               /\ \A other \in DOMAIN superbills_db \ {id} :
                      superbills_db'[other] = superbills_db[other]
        /\ code /= 200 => superbills_db' = superbills_db

\* C14: submit_superbill succeeds only on an existing pending superbill and
\* sets status, submitted_date and claim_number; 404 and 400 change nothing
C14_SubmitOnlyPending ==
    [][billing_request'.op = "submit"
          => SubmitAnswered(billing_request'.id, billing_response'.code)]_vars

C14_Witness ==
    /\ billing_request = [op |-> "submit", id |-> BillId(MaxBills)]
    /\ billing_response = [code |-> 200, id |-> BillId(MaxBills)]
    /\ times_submitted[BillId(MaxBills)] = 1
    /\ superbills_db[BillId(MaxBills)].status = "submitted"
    /\ superbills_db[BillId(MaxBills)].claim_number
           = <<"CLM", "-", "2025", "03", "26", "-", "0", "D", "4", "E">>
    /\ superbills_db[BillId(1)].status = "paid"

----------------------------------------------------------------------------
(* C15 as stated.  _wait_for_transcription_job makes at most max_retries   *)
(* status checks; when none of them reports COMPLETED or FAILED it ends    *)
(* with TranscriptionError; while it has not ended it can take a step, and *)
(* it returns only with job details.                                       *)

WaitEnded == wait_pc \in {"returned", "raised"}

WaitCanStep == ENABLED (CheckStatus \/ GiveUp)

NoneReportsEnd ==
    \A k \in 1 .. Len(checks) :
        ~Reports(checks[k], "COMPLETED") /\ ~Reports(checks[k], "FAILED")

WaitBounded ==
    /\ Len(checks) <= max_retries
    /\ retry <= max_retries
    /\ wait_pc = "poll" => WaitCanStep
    /\ wait_pc = "returned" => job_details /= <<>>

\* C15, as stated: at most max_retries checks, and TranscriptionError when
\* no check reports COMPLETED or FAILED
C15_BoundedEndsInTranscriptionError ==
    /\ WaitBounded
    /\ (WaitEnded /\ NoneReportsEnd) =>
           wait_pc = "raised" /\ wait_error = "TranscriptionError"

(* C15 as amended.  The same, except that a status check that fails in     *)
(* another way than with ClientError (another exception of the client, a   *)
(* response without TranscriptionJob or TranscriptionJobStatus) ends the   *)
(* wait at once with that exception, not with TranscriptionError.          *)
(* TranscriptionError without a FAILED report is raised on ClientError, or *)
(* when max_retries checks have been made.                                 *)

LastCheck == checks[Len(checks)]

FailedOtherwise(outcome) ==
    \/ "raises" \in DOMAIN outcome /\ outcome.raises /= "ClientError"
    \/ "response" \in DOMAIN outcome /\ ~HasStatus(outcome)

ErrorOf(outcome) == IF "raises" \in DOMAIN outcome THEN outcome.raises ELSE "KeyError"

\* C15, as amended: at most max_retries checks; without a COMPLETED or
\* FAILED report the wait ends with TranscriptionError or with the other
\* exception of its last check
C15_BoundedEndsInError ==
    /\ WaitBounded
    /\ (WaitEnded /\ NoneReportsEnd) =>
           /\ wait_pc = "raised"
           /\ IF checks /= <<>> /\ FailedOtherwise(LastCheck)
              THEN wait_error = ErrorOf(LastCheck)
              ELSE /\ wait_error = "TranscriptionError"
                   /\ \/ Len(checks) = max_retries
                      \/ checks /= <<>> /\ LastCheck = [raises |-> "ClientError"]

C15_Witness ==
    /\ wait_pc = "raised"
    /\ wait_error = "TranscriptionError"
    /\ max_retries = MaxRetries
    /\ Len(checks) = MaxRetries
    /\ \A k \in 1 .. Len(checks) : Reports(checks[k], "IN_PROGRESS")

----------------------------------------------------------------------------
(* C18.  _wait_for_transcription_job returns only when its last status     *)
(* check reported COMPLETED, and returns the job of that check; a check    *)
(* that reports COMPLETED or FAILED, or raises ClientError, is the last    *)
(* check, and after FAILED or ClientError the wait has ended with          *)
(* TranscriptionError.                                                     *)

\* C18: job details only from the check that reported COMPLETED; FAILED or
\* ClientError end the wait at once with TranscriptionError
C18_ReturnsOnlyCompleted ==
    /\ wait_pc = "returned" =>
           /\ checks /= <<>>
           /\ Reports(LastCheck, "COMPLETED")
           /\ job_details = LastCheck.response.TranscriptionJob
    /\ \A k \in 1 .. Len(checks) :
           /\ Reports(checks[k], "COMPLETED") => k = Len(checks) /\ wait_pc = "returned"
           /\ (Reports(checks[k], "FAILED") \/ checks[k] = [raises |-> "ClientError"]) =>
                  /\ k = Len(checks)
                  /\ wait_pc = "raised"
                  /\ wait_error = "TranscriptionError"

C18_Witness ==
    /\ wait_pc = "returned"
    /\ Len(checks) = 3
    /\ Reports(checks[1], "IN_PROGRESS")
    /\ Reports(checks[2], "QUEUED")
    /\ job_details = [TranscriptionJobStatus |-> "COMPLETED",
                      Transcript |-> [TranscriptFileUri |-> GoodUri]]

----------------------------------------------------------------------------
(* calendar_db: create_appointment, get_appointment,                       *)
(* list_all_appointments and update_appointment_status over the dict       *)
(* appointments_db.  A dict keeps its keys in insertion order, and a key   *)
(* that is assigned again keeps its place: appointment_keys.               *)

Titles == {"Test Appointment", "Review"}

\* appointment_id of the Appointment given to create_appointment
SuppliedIds == {Null, <<>>, mock_appointments[1].appointment_id}

\* uuid.uuid4().hex; the first two agree on their first eight symbols
CalendarUuidHex ==
    { <<"0", "1", "2", "3", "4", "5", "6", "7", "a">>,
      <<"0", "1", "2", "3", "4", "5", "6", "7", "b">>,
      <<"f", "e", "d", "c", "b", "a", "9", "8", "7">> }

AppointmentStatuses == {"completed", "cancelled"}

\* str[:n]
Prefix(str, n) == SubSeq(str, 1, IF n < Len(str) THEN n ELSE Len(str))

\* not x, for a str or None
Falsy(x) == x = Null \/ x = <<>>

\* lines 62-63
WithId(item, hex) ==
    IF Falsy(item.appointment_id)
    THEN [item EXCEPT !.appointment_id = <<"appt-">> \o Prefix(hex, 8)]
    ELSE item

\* d[k] = v on the keys of d
KeysPut(keys, k) ==
    IF \E i \in 1 .. Len(keys) : keys[i] = k THEN keys ELSE Append(keys, k)

\* an id the dict holds keeps its appointment
StoredIfNew(db, item) ==
    IF item.appointment_id \in DOMAIN db THEN db
    ELSE MapPut(db, item.appointment_id, item)

\* line 72
Stored(db, item) == MapPut(db, item.appointment_id, item)

\* lines 56-75
create_appointment ==
    /\ \E appointment_id \in SuppliedIds, title \in Titles, hex \in CalendarUuidHex :
           LET item == WithId(Appointment(appointment_id, title, "scheduled"), hex)
           IN  /\ appointments_db' = Stored(appointments_db, item)
               /\ appointment_keys' = KeysPut(appointment_keys, item.appointment_id)
               /\ calendar_result' =
                      [of |-> "create",
                       value |-> [message |-> "Appointment created",
                                  appointment_id |-> item.appointment_id]]
               /\ created' = MapPut(created, item.appointment_id, title)
    /\ UNCHANGED outside_calendar

\* appointments_db.get(appointment_id): no value stands for None
Looked(db, appointment_id) ==
    IF appointment_id \in DOMAIN db
    THEN [of |-> "get", value |-> db[appointment_id]]
    ELSE [of |-> "get"]

\* list(appointments_db.values())
Values(db, keys) == [k \in 1 .. Len(keys) |-> db[keys[k]]]

\* the ids the callers ask for: those of the dict and one it never holds
AskedIds == DOMAIN appointments_db \cup {<<"appt-", "n", "o", "n", "e">>}

\* lines 77-82
get_appointment ==
    /\ \E appointment_id \in AskedIds :
           calendar_result' = Looked(appointments_db, appointment_id)
    /\ UNCHANGED <<appointments_db, appointment_keys, created>>
    /\ UNCHANGED outside_calendar

\* lines 98-103
list_all_appointments ==
    /\ calendar_result' =
           [of |-> "list", value |-> Values(appointments_db, appointment_keys)]
    /\ UNCHANGED <<appointments_db, appointment_keys, created>>
    /\ UNCHANGED outside_calendar

\* lines 105-114
update_appointment_status ==
    /\ \E appointment_id \in AskedIds, status \in AppointmentStatuses :
           IF appointment_id \notin DOMAIN appointments_db
           THEN /\ calendar_result' = [of |-> "update", raises |-> "Exception"]
                /\ UNCHANGED appointments_db
           ELSE /\ appointments_db' =
                       [appointments_db EXCEPT ![appointment_id].status = status]
                /\ calendar_result' = [of |-> "update", value |-> [status |-> status]]
    /\ UNCHANGED <<appointment_keys, created>>
    /\ UNCHANGED outside_calendar

InitCalendar ==
    /\ TranscriptIdle
    /\ BillingInit
    /\ WaitIdle
    /\ CalendarInit
    /\ SessionInit
    /\ HandlerIdle
    /\ PaymentsInit
    /\ service = None

NextCalendar ==
    \/ create_appointment
    \/ get_appointment
    \/ list_all_appointments
    \/ update_appointment_status

SpecCalendar == InitCalendar /\ [][NextCalendar]_vars

----------------------------------------------------------------------------
(* C17.  While X is an id that create_appointment has returned,            *)
(* get_appointment(X) returns an appointment whose appointment_id is X and *)
(* whose title is the title given to the last create that returned X, and  *)
(* list_all_appointments holds that appointment.                           *)

\* C17: a created appointment is found under the returned id with the
\* supplied title, and is listed
C17_CreatedIsStored ==
    \A X \in DOMAIN created :
        LET got == Looked(appointments_db, X)
            all == Values(appointments_db, appointment_keys)
        IN  /\ "value" \in DOMAIN got
            /\ got.value.appointment_id = X
            /\ got.value.title = created[X]
            /\ \E k \in 1 .. Len(all) : all[k] = got.value

\* two creates drew ids with the same first eight symbols, the second one
\* replaced the first; the status was updated after
C17_Witness ==
    /\ calendar_result = [of |-> "update", value |-> [status |-> "cancelled"]]
    /\ \E X \in DOMAIN created :
           /\ X = <<"appt-", "0", "1", "2", "3", "4", "5", "6", "7">>
           /\ created[X] = "Review"
           /\ appointments_db[X].status = "cancelled"
    /\ Cardinality(DOMAIN created) = 3

----------------------------------------------------------------------------
(* The session of test_user_login_and_calendar_access.  The routes         *)
(* /api/auth/login, /api/auth/logout and /api/calendar/events are not      *)
(* among the source files (main.py includes the routers, and no            *)
(* middleware but CORS); they are modelled from the two tests: login with  *)
(* the credentials answers 200 and a new accessToken; logout, which the    *)
(* client sends without a header, answers 200 and ends the sessions of the *)
(* client; GET /api/calendar/events answers 200 without an Authorization   *)
(* header (test_get_calendar_events) and with a token in force, and 401    *)
(* with any other token.                                                   *)

Token(n) == <<"token", n>>

Credentials == {"password123", "wrong"}

Login ==
    /\ issued < MaxLogins
    /\ \E password \in Credentials :
           IF password = "password123"
           THEN /\ issued' = issued + 1
                /\ sessions' = sessions \cup {Token(issued + 1)}
                /\ api_response' =
                       [request |-> "login", code |-> 200,
                        accessToken |-> Token(issued + 1)]
           ELSE /\ api_response' = [request |-> "login", code |-> 401]
                /\ UNCHANGED <<issued, sessions>>
    /\ UNCHANGED <<used, revoked>>
    /\ UNCHANGED outside_session

\* the header of a request: none, a token that was issued, or another one
Headers == {<<>>} \cup {<<"Bearer", Token(n)>> : n \in 0 .. issued}

\* a token stays in force after logout
EndedNone(tokens) == tokens

EndedAll(tokens) == {}

Logout ==
    /\ api_response' = [request |-> "logout", code |-> 200]
    /\ sessions' = EndedAll(sessions)
    /\ revoked' = revoked \cup used
    /\ UNCHANGED <<issued, used>>
    /\ UNCHANGED outside_session

CalendarEvents ==
    /\ \E headers \in Headers :
           LET code == IF headers = <<>> \/ headers[2] \in sessions THEN 200 ELSE 401
           IN  /\ api_response' =
                      [request |-> "events", headers |-> headers, code |-> code]
               /\ used' =
                      IF headers /= <<>> /\ code = 200
                      THEN used \cup {headers[2]} ELSE used
    /\ UNCHANGED <<sessions, issued, revoked>>
    /\ UNCHANGED outside_session

InitSession ==
    /\ TranscriptIdle
    /\ BillingInit
    /\ WaitIdle
    /\ CalendarInit
    /\ SessionInit
    /\ HandlerIdle
    /\ PaymentsInit
    /\ service = None

NextSession == Login \/ Logout \/ CalendarEvents

SpecSession == InitSession /\ [][NextSession]_vars

----------------------------------------------------------------------------
(* C16.  A token that a login returned, that a calendar-events request     *)
(* succeeded with, and that was logged out after that, is rejected with    *)
(* 401 or 403 by every calendar-events request that bears it thereafter.   *)

----------------------------------------------------------------------------
(* lambda_handler, transcribe_file and transcribe_s3_file.  One of         *)
(* lambda_handler and transcribe_s3_file is called once.  An event is any  *)
(* JSON value: [type |-> "dict", value |-> the dict] or a value of another *)
(* type; so is the value under 'Records'.  A file name, a bucket and a key *)
(* are strings, sequences of symbols; the calls of the AWS clients and of  *)
(* the file system give one of the outcomes they can give.                 *)

Dict(d) == [type |-> "dict", value |-> d]

List(l) == [type |-> "list", value |-> l]

Mp3Key == <<"a", ".", "M", "P", "3">>

TxtKey == <<"a", ".", "t", "x", "t">>

S3Record(name, object_key) ==
    [eventSource |-> "aws:s3",
     s3 |-> [bucket |-> [name |-> name], object |-> [key |-> object_key]]]

\* the records of an event
Records ==
    {S3Record(name, object_key) : name \in {<<"audio">>, <<>>},
                                  object_key \in {Mp3Key, TxtKey}}
    \cup {[eventSource |-> "aws:s3"], [eventSource |-> "aws:sqs"]}

Mp3Path == <<"/", "t", "/", "b", ".", "m", "p", "3">>

TxtPath == <<"/", "t", "/", "b", ".", "t", "x", "t">>

GonePath == <<"/", "t", "/", "c", ".", "m", "p", "3">>

\* os.path.exists
ExistingFiles == {Mp3Path, TxtPath}

WithOutput(d) == {d, d @@ [outputBucket |-> <<"out">>]}

Events ==
    {NoEvent, List(<<>>)}
    \cup {Dict([Records |-> [type |-> "NoneType"]]), Dict([Records |-> List(<<>>)])}
    \cup {Dict(d) : d \in UNION {WithOutput([Records |-> List(<<r>>)]) : r \in Records}}
    \cup {Dict(d) : d \in UNION {WithOutput([file_path |-> path]) :
                                    path \in {Mp3Path, TxtPath, GonePath, <<>>}}}
    \cup {Dict([bucket |-> <<"mine">>]),
          Dict([file_path |-> Mp3Path, bucket |-> <<"mine">>])}

Environs ==
    {<<>>, [TRANSCRIBE_S3_BUCKET |-> <<>>], [TRANSCRIBE_S3_BUCKET |-> <<"tmp">>]}
    \cup {[TRANSCRIBE_S3_BUCKET |-> <<"tmp">>, TRANSCRIBE_MAX_RETRIES |-> n] :
              n \in {<<"2">>, <<"x">>}}

\* str.lower()
LowerChar(c) ==
    CASE c = "M" -> "m" [] c = "P" -> "p" [] c = "A" -> "a" [] OTHER -> c

Lower(str) == [k \in 1 .. Len(str) |-> LowerChar(str[k])]

\* str.endswith(suffix)
EndsWith(str, suffix) ==
    /\ Len(str) >= Len(suffix)
    /\ SubSeq(str, Len(str) - Len(suffix) + 1, Len(str)) = suffix

\* str.startswith(prefix)
StartsWith(str, prefix) ==
    /\ Len(str) >= Len(prefix)
    /\ SubSeq(str, 1, Len(prefix)) = prefix

DotMp3 == <<".", "m", "p", "3">>

\* os.path.basename
RECURSIVE Basename(_)
Basename(path) ==
    IF path = <<>> \/ path[Len(path)] = "/" THEN <<>>
    ELSE Append(Basename(SubSeq(path, 1, Len(path) - 1)), path[Len(path)])

Digits == <<"0", "1", "2", "3", "4", "5", "6", "7", "8", "9">>

IsInt(str) == Len(str) = 1 /\ \E d \in 1 .. Len(Digits) : Digits[d] = str[1]

\* int(str), of one digit
IntOf(str) == (CHOOSE d \in 1 .. Len(Digits) : Digits[d] = str[1]) - 1

\* the classes of the except clauses of lines 487-511 an exception is of
IsValueError(exc) == exc \in {"ValueError", "JSONDecodeError"}

\* lines 487-518
StatusCodeOf(exc) ==
    IF exc = "FileNotFoundError" THEN 404
    ELSE IF IsValueError(exc) THEN 400
    ELSE 500

\* an exception leaves the try of line 405, or the function that was called
Raise(exc) ==
    /\ h_pc' = "ended"
    /\ response' =
           IF entry = "lambda_handler"
           THEN [statusCode |-> StatusCodeOf(exc), body |-> [error |-> exc]]
           ELSE [raised |-> exc]

InitLambda ==
    /\ TranscriptIdle
    /\ BillingInit
    /\ WaitIdle
    /\ CalendarInit
    /\ SessionInit
    /\ PaymentsInit
    /\ service = None
    /\ file_path = Null
    /\ steps = <<>>
    /\ failed = None
    /\ returned = <<>>
    /\ response = <<>>
    /\ \/ /\ entry = "lambda_handler"
          /\ event \in Events
          /\ environ \in Environs
          /\ s3_bucket = Null
          /\ s3_key = Null
          /\ h_pc = "log"
       \/ /\ entry = "transcribe_s3_file"
          /\ event = NoEvent
          /\ environ = <<>>
          /\ s3_bucket \in {Null, <<>>, <<"audio">>}
          /\ s3_key \in {Null, <<>>, Mp3Key, TxtKey}
          /\ h_pc = "validate"

\* 'Records' in event, for the types of the events
HasRecords(e) ==
    e.type = "dict" /\ "Records" \in DOMAIN e.value

\* lines 400-403, before the try
LogEvent ==
    /\ h_pc = "log"
    /\ IF event.type \notin {"dict", "list"}
       THEN \* argument of type 'NoneType' is not iterable
            /\ h_pc' = "ended"
            /\ response' = [raised |-> "TypeError"]
       ELSE IF HasRecords(event) /\ event.value.Records.type /= "list"
       THEN \* object of type 'NoneType' has no len()
            /\ h_pc' = "ended"
            /\ response' = [raised |-> "TypeError"]
       ELSE /\ h_pc' = "configure"
            /\ UNCHANGED response
    /\ UNCHANGED <<entry, event, environ, file_path, s3_bucket, s3_key, steps,
                   failed, returned>>
    /\ UNCHANGED outside_handler

\* lines 407-413; MP3Transcriber() reads TRANSCRIBE_MAX_RETRIES (line 44)
Configure ==
    /\ h_pc = "configure"
    /\ IF Falsy(Get(environ, "TRANSCRIBE_S3_BUCKET", Null))
       THEN Raise("ValueError") /\ UNCHANGED max_retries
       ELSE IF "TRANSCRIBE_MAX_RETRIES" \notin DOMAIN environ
       THEN /\ max_retries' = DefaultMaxRetries
            /\ h_pc' = "route"
            /\ UNCHANGED response
       ELSE IF IsInt(environ.TRANSCRIBE_MAX_RETRIES)
       THEN /\ max_retries' = IntOf(environ.TRANSCRIBE_MAX_RETRIES)
            /\ h_pc' = "route"
            /\ UNCHANGED response
       ELSE Raise("ValueError") /\ UNCHANGED max_retries
    /\ UNCHANGED <<entry, event, environ, file_path, s3_bucket, s3_key, steps,
                   failed, returned>>
    /\ UNCHANGED <<wait_pc, retry, checks, job_details, wait_error>>
    /\ UNCHANGED <<transcript_vars, outside_pipeline>>

\* lines 416-448, up to the call of transcribe_s3_file or transcribe_file
Route ==
    /\ h_pc = "route"
    /\ IF event.type /= "dict"
       THEN \* 'list' object has no attribute 'get'
            Raise("AttributeError") /\ UNCHANGED <<file_path, s3_bucket, s3_key>>
       ELSE IF HasRecords(event) /\ event.value.Records.value = <<>>
       THEN Raise("IndexError") /\ UNCHANGED <<file_path, s3_bucket, s3_key>>
       ELSE IF HasRecords(event)
               /\ Get(event.value.Records.value[1], "eventSource", None) = "aws:s3"
       THEN LET record == event.value.Records.value[1]
            IN  IF "s3" \notin DOMAIN record
                THEN Raise("KeyError") /\ UNCHANGED <<file_path, s3_bucket, s3_key>>
                ELSE IF ~EndsWith(Lower(record.s3.object.key), DotMp3)
                THEN \* lines 423-430
                     /\ h_pc' = "ended"
                     /\ response' =
                            [statusCode |-> 400, body |-> [error |-> "not an MP3"]]
                     /\ s3_bucket' = record.s3.bucket.name
                     /\ s3_key' = record.s3.object.key
                     /\ UNCHANGED file_path
                ELSE /\ h_pc' = "validate"
                     /\ s3_bucket' = record.s3.bucket.name
                     /\ s3_key' = record.s3.object.key
                     /\ UNCHANGED <<file_path, response>>
       ELSE IF Falsy(Get(event.value, "file_path", Null))
       THEN Raise("ValueError") /\ UNCHANGED <<file_path, s3_bucket, s3_key>>
       ELSE /\ file_path' = event.value.file_path
            /\ s3_bucket' = Get(event.value, "bucket", environ.TRANSCRIBE_S3_BUCKET)
            /\ h_pc' = "file"
            /\ UNCHANGED <<s3_key, response>>
    /\ UNCHANGED <<entry, event, environ, steps, failed, returned>>
    /\ UNCHANGED outside_handler

\* lines 324-328
ValidateFile ==
    /\ h_pc = "file"
    /\ IF file_path \notin ExistingFiles THEN Raise("FileNotFoundError")
       ELSE IF ~EndsWith(Lower(file_path), DotMp3) THEN Raise("ValueError")
       ELSE h_pc' = "upload" /\ UNCHANGED response
    /\ UNCHANGED <<entry, event, environ, file_path, s3_bucket, s3_key, steps,
                   failed, returned>>
    /\ UNCHANGED outside_handler

\* what _upload_to_s3 can meet: the file is no longer there, and the
\* outcomes of s3_client.upload_file
UploadOutcomes == {"uploaded", "FileNotFoundError", "ClientError", "S3UploadFailedError"}

\* line 331, lines 55-78
Upload ==
    /\ h_pc = "upload"
    /\ \E outcome \in UploadOutcomes :
           IF outcome = "uploaded"
           THEN /\ s3_key' = <<"uploads", "/">> \o Basename(file_path)
                /\ h_pc' = "validate"
                /\ UNCHANGED response
           ELSE /\ Raise(IF outcome = "ClientError" THEN "TranscriptionError"
                         ELSE outcome)
                /\ UNCHANGED s3_key
    /\ UNCHANGED <<entry, event, environ, file_path, s3_bucket, steps, failed,
                   returned>>
    /\ UNCHANGED outside_handler

\* every key is taken
ValidS3InputAnyKey(b, k) == ~Falsy(b) /\ ~Falsy(k)

\* lines 362-366
ValidS3Input(b, k) == ~Falsy(b) /\ ~Falsy(k) /\ EndsWith(Lower(k), DotMp3)

\* lines 358-366
ValidateS3 ==
    /\ h_pc = "validate"
    /\ steps' = Append(steps, "validate")
    /\ IF ValidS3Input(s3_bucket, s3_key)
       THEN h_pc' = "start" /\ UNCHANGED <<failed, response>>
       ELSE failed' = "validate" /\ Raise("ValueError")
    /\ UNCHANGED <<entry, event, environ, file_path, s3_bucket, s3_key, returned>>
    /\ UNCHANGED outside_handler

\* the outcomes of transcribe_client.start_transcription_job
StartOutcomes == {"started", "ClientError", "ParamValidationError"}

\* line 369, lines 80-117; when the job is started, the call of line 372
StartJob ==
    /\ h_pc = "start"
    /\ \E outcome \in StartOutcomes :
           IF outcome = "started"
           THEN /\ steps' = steps \o <<"start", "wait">>
                /\ h_pc' = "wait"
                /\ wait_pc' = "poll"
                /\ retry' = 0
                /\ checks' = <<>>
                /\ UNCHANGED <<failed, response>>
           ELSE /\ steps' = Append(steps, "start")
                /\ failed' = "start"
                /\ Raise(IF outcome = "ClientError" THEN "TranscriptionError"
                         ELSE outcome)
                /\ UNCHANGED <<wait_pc, retry, checks>>
    /\ UNCHANGED <<entry, event, environ, file_path, s3_bucket, s3_key, returned>>
    /\ UNCHANGED <<max_retries, job_details, wait_error>>
    /\ UNCHANGED <<transcript_vars, outside_pipeline>>

\* line 375
TranscriptUri(details) ==
    Get(Get(details, "Transcript", <<>>), "TranscriptFileUri", Null)

\* lines 372-377, when _wait_for_transcription_job has ended
AfterWait ==
    /\ h_pc = "wait"
    /\ wait_pc \in {"returned", "raised"}
    /\ IF wait_pc = "raised"
       THEN failed' = "wait" /\ Raise(wait_error)
       ELSE IF Falsy(TranscriptUri(job_details))
       THEN failed' = "wait" /\ Raise("TranscriptionError")
       ELSE h_pc' = "download" /\ UNCHANGED <<failed, response>>
    /\ UNCHANGED <<entry, event, environ, file_path, s3_bucket, s3_key, steps,
                   returned>>
    /\ UNCHANGED outside_handler

\* the documents that are downloaded
Downloads == BetweenInputs

\* what s3_client.download_file and json.load can raise
DownloadErrors == {"ClientError", "JSONDecodeError"}

\* the locals of a new frame of _process_transcript
NewFrame ==
    /\ items' = <<>>
    /\ speaker_labels' = <<>>
    /\ full_transcript' = <<>>
    /\ word_speaker_map' = EmptyMap
    /\ seg_i' = 1
    /\ conversation' = <<>>
    /\ current_speaker' = None
    /\ current_text' = <<>>
    /\ item_i' = 1
    /\ formatted_text' = <<>>
    /\ result' = <<>>

\* line 380, lines 158-194; when a document is returned, the call of
\* line 381
Download ==
    /\ h_pc = "download"
    /\ IF ~StartsWith(TranscriptUri(job_details), <<"s3://">>)
       THEN \* ValueError, raised as TranscriptionError at 194
            /\ steps' = Append(steps, "download")
            /\ failed' = "download"
            /\ Raise("TranscriptionError")
            /\ UNCHANGED transcript_vars
       ELSE \/ /\ \E error \in DownloadErrors : Raise("TranscriptionError")
               /\ steps' = Append(steps, "download")
               /\ failed' = "download"
               /\ UNCHANGED transcript_vars
            \/ /\ \E data \in Downloads : transcript_data' = data
               /\ pc' = "start"
               /\ NewFrame
               /\ steps' = steps \o <<"download", "process">>
               /\ h_pc' = "process"
               /\ UNCHANGED <<failed, response>>
    /\ UNCHANGED <<entry, event, environ, file_path, s3_bucket, s3_key, returned>>
    /\ UNCHANGED <<wait_vars, outside_pipeline>>

\* lines 384-385, and 337-338 when transcribe_file made the call
WithSource(res) ==
    LET metadata == MapPut(MapPut(res.metadata, "bucket", s3_bucket), "key", s3_key)
    IN  [res EXCEPT !.metadata =
            IF file_path = Null THEN metadata
            ELSE MapPut(MapPut(metadata, "file_name", Basename(file_path)),
                      "file_path", file_path)]

\* lines 381-388 and 334-340, when _process_transcript has ended
AfterProcess ==
    /\ h_pc = "process"
    /\ Ended
    /\ IF pc = "raised"
       THEN failed' = "process" /\ Raise("TranscriptionError") /\ UNCHANGED returned
       ELSE /\ returned' = Some(WithSource(result))
            /\ IF entry = "lambda_handler"
               THEN h_pc' = "save" /\ UNCHANGED response
               ELSE h_pc' = "ended" /\ response' = [returned |-> WithSource(result)]
            /\ UNCHANGED failed
    /\ UNCHANGED <<entry, event, environ, file_path, s3_bucket, s3_key, steps>>
    /\ UNCHANGED outside_handler

\* what writing the temporary file of lines 462-464 can meet
TempFileOutcomes == {"written", "OSError", "FileNotFoundError"}

\* the outcomes of s3_client.upload_file at line 468
SaveOutcomes == {"uploaded", "ClientError", "S3UploadFailedError"}

\* lines 453-485
Save ==
    /\ h_pc = "save"
    /\ LET output_bucket == Get(event.value, "outputBucket", Null)
       IN  IF Falsy(output_bucket)
           THEN /\ h_pc' = "ended"
                /\ response' = [statusCode |-> 200, body |-> returned[1]]
           ELSE \E written \in TempFileOutcomes, saved \in SaveOutcomes :
                    IF written /= "written" THEN Raise(written)
                    ELSE /\ h_pc' = "ended"
                         /\ response' =
                                [statusCode |-> 200,
                                 body |-> IF saved = "uploaded"
                                          THEN MapPut(returned[1], "s3_location",
                                                    [bucket |-> output_bucket])
                                          ELSE returned[1]]
    /\ UNCHANGED <<entry, event, environ, file_path, s3_bucket, s3_key, steps,
                   failed, returned>>
    /\ UNCHANGED outside_handler

NextLambda ==
    \/ LogEvent
    \/ Configure
    \/ Route
    \/ ValidateFile
    \/ Upload
    \/ ValidateS3
    \/ StartJob
    \/ CheckStatus
    \/ GiveUp
    \/ AfterWait
    \/ Download
    \/ Extract
    \/ MapSegment
    \/ WalkItem
    \/ AddLast
    \/ Format
    \/ UseFullTranscript
    \/ Return
    \/ AfterProcess
    \/ Save

SpecLambda == InitLambda /\ [][NextLambda]_vars

----------------------------------------------------------------------------
(* C19.  transcribe_s3_file begins its steps in the order validate, start  *)
(* job, wait, download, process.  A job is started only for a bucket and a *)
(* key that are not empty, the key ending in .mp3 in any case; the         *)
(* download is begun only after the last status check reported COMPLETED   *)
(* and the job details carry a transcript URI; after a step has failed no  *)
(* later step was begun and nothing is returned; a result is returned only *)
(* after all five steps.                                                   *)

AllSteps == <<"validate", "start", "wait", "download", "process">>

IsPrefix(a, b) == Len(a) <= Len(b) /\ a = SubSeq(b, 1, Len(a))

IsMp3Name(str) ==
    /\ Len(str) >= 4
    /\ str[Len(str) - 3] = "."
    /\ str[Len(str) - 2] \in {"m", "M"}
    /\ str[Len(str) - 1] \in {"p", "P"}
    /\ str[Len(str)] = "3"

\* C19: the steps of transcribe_s3_file are begun in order, each only when
\* the one before succeeded, and a failure ends the call without a result
C19_StepsInOrder ==
    /\ IsPrefix(steps, AllSteps)
    /\ Len(steps) >= 2 =>
           /\ s3_bucket \notin {Null, <<>>}
           /\ s3_key \notin {Null, <<>>}
           /\ IsMp3Name(s3_key)
    /\ Len(steps) >= 4 =>
           /\ wait_pc = "returned"
           /\ checks /= <<>>
           /\ Reports(LastCheck, "COMPLETED")
           /\ "Transcript" \in DOMAIN job_details
           /\ "TranscriptFileUri" \in DOMAIN job_details.Transcript
           /\ job_details.Transcript.TranscriptFileUri /= <<>>
    /\ pc /= "idle" => steps = AllSteps
    /\ failed /= None =>
           /\ steps /= <<>>
           /\ steps[Len(steps)] = failed
           /\ returned = <<>>
           /\ h_pc = "ended"
           /\ entry = "transcribe_s3_file" => "raised" \in DOMAIN response
    /\ returned /= <<>> =>
           /\ steps = AllSteps
           /\ failed = None
           /\ pc = "done"

\* a direct call returned a result after two status checks
C19_Witness ==
    /\ entry = "transcribe_s3_file"
    /\ h_pc = "ended"
    /\ "returned" \in DOMAIN response
    /\ steps = AllSteps
    /\ Len(checks) = 2
    /\ s3_key = Mp3Key

----------------------------------------------------------------------------
(* C20.  lambda_handler ends with a response whose statusCode is 200, 400, *)
(* 404 or 500: 404 for FileNotFoundError, 400 for ValueError and for an    *)
(* input that is not an MP3, 500 for any other exception; 200 with the     *)
(* result exactly when the pipeline returned a result.                     *)

\* C20: every invocation of lambda_handler returns a response, with the
\* status code of its exception, and 200 with the result exactly when the
\* pipeline returned one
C20_AlwaysAResponse ==
    (entry = "lambda_handler" /\ h_pc = "ended") =>
        /\ "statusCode" \in DOMAIN response
        /\ response.statusCode \in {200, 400, 404, 500}
        /\ response.statusCode = 200 <=> returned /= <<>>
        /\ response.statusCode = 200 =>
               [x \in DOMAIN returned[1] |-> response.body[x]] = returned[1]
        /\ response.statusCode /= 200 =>
               response.statusCode =
                   CASE response.body.error = "FileNotFoundError" -> 404
                     [] response.body.error \in {"ValueError", "not an MP3"} -> 400
                     [] OTHER -> 500

----------------------------------------------------------------------------
(* The payments routes: create_payment, update_payment, process_payment,   *)
(* create_payment_method and delete_payment_method.  A request that is     *)
(* refused answers with the code of its HTTPException; an exception that   *)
(* is not an HTTPException answers 500.                                    *)

\* datetime.now(), a naive time: its isoformat()
Now == <<"2025", "-", "03", "-", "26", "T", "12">>

\* now.strftime("%Y-%m-%d")
Today == SubSeq(Now, 1, 5)

\* the number a numeral of a date or a time stands for
NumeralValue(numeral) ==
    CASE numeral = "2025" -> 2025 [] numeral = "2024" -> 2024
      [] numeral = "00" -> 0 [] numeral = "03" -> 3 [] numeral = "04" -> 4
      [] numeral = "09" -> 9 [] numeral = "10" -> 10 [] numeral = "12" -> 12
      [] numeral = "14" -> 14 [] numeral = "15" -> 15 [] numeral = "18" -> 18
      [] numeral = "20" -> 20 [] numeral = "25" -> 25 [] numeral = "26" -> 26
      [] numeral = "28" -> 28 [] OTHER -> -1

\* str.replace(old, new), symbol by symbol
Replaced(str, old, new) == [k \in 1 .. Len(str) |-> IF str[k] = old THEN new ELSE str[k]]

IsDate(str) ==
    /\ Len(str) >= 5
    /\ str[2] = "-" /\ str[4] = "-"
    /\ \A k \in {1, 3, 5} : NumeralValue(str[k]) >= 0

\* the strings datetime.fromisoformat takes: a date, a date and an hour,
\* and the latter with an offset
IsIso(str) ==
    /\ IsDate(str)
    /\ \/ Len(str) = 5
       \/ Len(str) \in {7, 8} /\ str[6] = "T" /\ NumeralValue(str[7]) >= 0
    /\ Len(str) = 8 => str[8] = "+00:00"

\* datetime.fromisoformat: year, month, day and hour, aware with an offset
FromIso(str) ==
    [aware |-> Len(str) = 8,
     at |-> <<NumeralValue(str[1]), NumeralValue(str[3]), NumeralValue(str[5]),
              IF Len(str) = 5 THEN 0 ELSE NumeralValue(str[7])>>]

\* a < b of two datetimes
RECURSIVE Earlier(_, _)
Earlier(a, b) ==
    IF a = <<>> THEN FALSE
    ELSE IF Head(a) /= Head(b) THEN Head(a) < Head(b)
    ELSE Earlier(Tail(a), Tail(b))

\* due_date of a PaymentCreate
DueDates ==
    {<<"2025", "-", "04", "-", "15">>, <<"2025", "-", "03", "-", "20">>,
     <<"2025", "-", "03", "-", "26", "T", "09">>,
     <<"2025", "-", "04", "-", "15", "T", "00", "Z">>, <<"tomorrow">>}

Amounts == {150, 200}

\* lines 238-240
StatusAt(due, today) == IF Earlier(due.at, today.at) THEN "overdue" ELSE "upcoming"

\* the id is "pay" and the number of the last payment
NewPaymentIdLast(db) == PayId(Cardinality(DOMAIN db))

\* line 244
NewPaymentId(db) == PayId(Cardinality(DOMAIN db) + 1)

\* lines 230-253
CreatePayment ==
    /\ Cardinality(DOMAIN payments_db) < MaxPayments
    /\ \E due_date \in DueDates, amount \in Amounts :
           LET text == Replaced(due_date, "Z", "+00:00")
               id == NewPaymentId(payments_db)
           IN  IF ~IsIso(text)
               THEN \* ValueError at 234
                    /\ payments_response' = [op |-> "create", code |-> 500]
                    /\ UNCHANGED payments_db
               ELSE IF FromIso(text).aware
               THEN \* TypeError at 239: an aware and a naive datetime
                    /\ payments_response' = [op |-> "create", code |-> 500]
                    /\ UNCHANGED payments_db
               ELSE /\ payments_db' =
                           MapPut(payments_db, id,
                                  Payment(amount, due_date, Null,
                                          StatusAt(FromIso(text), FromIso(Now)),
                                          Null, Null, Now))
                    /\ payments_response' = [op |-> "create", code |-> 201, id |-> id]
    /\ UNCHANGED <<payment_methods_db, payment_method_keys>>
    /\ UNCHANGED outside_payments

\* the payments the requests name: the first, and one that is unknown
\* until it is created
PaymentIds == {PayId(1), PayId(Cardinality(DOMAIN SamplePayments) + 1)}

\* bodies of update_payment: the fields that are set (exclude_unset)
PaymentUpdates ==
    {[paid_date |-> Today], [paid_date |-> Today, status |-> "overdue"],
     [paid_date |-> <<>>, status |-> "overdue"], [status |-> "upcoming"],
     [notes |-> <<"called">>], [paid_date |-> Null]}

\* the status of the request is kept
PaidWhenDatedNever(payment, updates) == payment

\* lines 273-274
PaidWhenDated(payment, updates) ==
    IF ~Falsy(Get(updates, "paid_date", Null))
    THEN [payment EXCEPT !.status = "paid"]
    ELSE payment

\* lines 255-279
UpdatePayment ==
    /\ \E id \in PaymentIds, updates \in PaymentUpdates :
           IF id \notin DOMAIN payments_db
           THEN /\ payments_response' = [op |-> "update", id |-> id, code |-> 404]
                /\ UNCHANGED payments_db
           ELSE /\ payments_db' =
                       [payments_db EXCEPT ![id] =
                           [PaidWhenDated(Updated(@, updates), updates)
                               EXCEPT !.updated_at = Now]]
                /\ payments_response' =
                       [op |-> "update", id |-> id, code |-> 200, updates |-> updates]
    /\ UNCHANGED <<payment_methods_db, payment_method_keys>>
    /\ UNCHANGED outside_payments

\* line 315
TransactionId(hex) == <<"txn_">> \o Prefix(hex, 8)

\* the methods the requests name
MethodIds == {MethodId(n) : n \in 1 .. MaxMethods}

\* the amount is not compared
AmountRefusedNever(payment, amount) == FALSE

\* line 302
AmountRefused(payment, amount) == payment.amount /= amount

\* lines 281-318
ProcessPayment ==
    /\ \E payment_id \in PaymentIds, payment_method_id \in MethodIds,
          amount \in Amounts, hex \in CalendarUuidHex :
           LET request == [op |-> "process", id |-> payment_id,
                           payment_method_id |-> payment_method_id,
                           amount |-> amount]
           IN  IF payment_id \notin DOMAIN payments_db
               THEN /\ payments_response' =
                           request @@ [code |-> 404, detail |-> "Payment"]
                    /\ UNCHANGED payments_db
               ELSE IF payment_method_id \notin DOMAIN payment_methods_db
               THEN /\ payments_response' =
                           request @@ [code |-> 404, detail |-> "Payment method"]
                    /\ UNCHANGED payments_db
               ELSE IF AmountRefused(payments_db[payment_id], amount)
               THEN /\ payments_response' =
                           request @@ [code |-> 400, detail |-> "Payment amount"]
                    /\ UNCHANGED payments_db
               ELSE /\ payments_db' =
                           [payments_db EXCEPT ![payment_id] =
                               [@ EXCEPT !.paid_date = Today,
                                         !.status = "paid",
                                         !.payment_method =
                                             payment_methods_db[payment_method_id].name,
                                         !.transaction_id = TransactionId(hex),
                                         !.updated_at = Now]]
                    /\ payments_response' = request @@ [code |-> 200]
    /\ UNCHANGED <<payment_methods_db, payment_method_keys>>
    /\ UNCHANGED outside_payments

Users == {"p1", "p2"}

\* the methods of the user stay as they are
OthersKept(db, user_id) == db

\* lines 341-343
OthersCleared(db, user_id) ==
    [id \in DOMAIN db |->
        IF db[id].user_id = user_id THEN [db[id] EXCEPT !.is_default = FALSE]
        ELSE db[id]]

\* lines 326-348
CreatePaymentMethod ==
    /\ Cardinality(DOMAIN payment_methods_db) < MaxMethods
    /\ \E user_id \in Users, is_default \in BOOLEAN :
           LET id == MethodId(Cardinality(DOMAIN payment_methods_db) + 1)
               new_method == PaymentMethod(user_id, <<"Amex">>, is_default)
               others == IF is_default
                         THEN OthersCleared(payment_methods_db, user_id)
                         ELSE payment_methods_db
           IN  /\ payment_methods_db' = MapPut(others, id, new_method)
               /\ payment_method_keys' = KeysPut(payment_method_keys, id)
               /\ payments_response' =
                      [op |-> "create_method", code |-> 201, id |-> id]
    /\ UNCHANGED payments_db
    /\ UNCHANGED outside_payments

\* del d[k]
Removed(db, k) == [id \in DOMAIN db \ {k} |-> db[id]]

\* line 369
UserMethods(db, keys, user_id) == SelectSeq(keys, LAMBDA id : db[id].user_id = user_id)

\* no method takes the place of the default
NewDefaultNone(db, keys, user_id) == db

\* lines 369-371
NewDefault(db, keys, user_id) ==
    LET user_methods == UserMethods(db, keys, user_id)
    IN  IF user_methods /= <<>>
        THEN [db EXCEPT ![user_methods[1]].is_default = TRUE]
        ELSE db

\* lines 350-373
DeletePaymentMethod ==
    /\ \E method_id \in MethodIds \cup {MethodId(MaxMethods + 1)} :
           IF method_id \notin DOMAIN payment_methods_db
           THEN /\ payments_response' =
                       [op |-> "delete_method", id |-> method_id, code |-> 404]
                /\ UNCHANGED <<payment_methods_db, payment_method_keys>>
           ELSE LET method == payment_methods_db[method_id]
                    keys == SelectSeq(payment_method_keys, LAMBDA id : id /= method_id)
                    rest == Removed(payment_methods_db, method_id)
                IN  /\ payment_method_keys' = keys
                    /\ payment_methods_db' =
                           IF method.is_default
                           THEN NewDefault(rest, keys, method.user_id)
                           ELSE rest
                    /\ payments_response' =
                           [op |-> "delete_method", id |-> method_id, code |-> 204]
    /\ UNCHANGED payments_db
    /\ UNCHANGED outside_payments

InitPayments ==
    /\ TranscriptIdle
    /\ BillingInit
    /\ WaitIdle
    /\ CalendarInit
    /\ SessionInit
    /\ HandlerIdle
    /\ PaymentsInit
    /\ service = None

NextMethods == CreatePaymentMethod \/ DeletePaymentMethod

\* the two routes that write payment_methods_db
SpecMethods == InitPayments /\ [][NextMethods]_vars

\* the two routes that write a stored payment
NextPayments == UpdatePayment \/ ProcessPayment

SpecPayments == InitPayments /\ [][NextPayments]_vars

\* the stored methods of a user that are the default
Defaults(db, user_id) ==
    {id \in DOMAIN db : db[id].user_id = user_id /\ db[id].is_default}

(* C22: in every state reached from the sample data by calls of           *)
(* create_payment_method and delete_payment_method, each user has at most  *)
(* one payment method with is_default true.                                *)
C22_AtMostOneDefault ==
    \A user_id \in Users : Cardinality(Defaults(payment_methods_db, user_id)) <= 1

\* a default method was created for a user who had a default method
C22_Witness ==
    /\ payments_response.op = "create_method"
    /\ payment_methods_db[payments_response.id].is_default
    /\ payments_response.id = MethodId(3)
    /\ payment_methods_db[MethodId(1)] =
           PaymentMethod("p1", <<"Visa ending in 4242">>, FALSE)
    /\ payment_methods_db[MethodId(3)].user_id = "p1"

(* C23: deleting the default method of a user who has other methods makes  *)
(* exactly one of the remaining methods of that user the default;          *)
(* deleting a method that is not the default changes no other method;      *)
(* deleting an unknown id answers 404 and changes nothing.                 *)
C23_DeleteKeepsOneDefault ==
    [][payments_response'.op = "delete_method" =>
          LET id == payments_response'.id
          IN  IF payments_response'.code = 404
              THEN /\ id \notin DOMAIN payment_methods_db
                   /\ UNCHANGED <<payment_methods_db, payment_method_keys, payments_db>>
              ELSE /\ id \in DOMAIN payment_methods_db
                   /\ DOMAIN payment_methods_db' = DOMAIN payment_methods_db \ {id}
                   /\ LET method == payment_methods_db[id]
                          remaining == {m \in DOMAIN payment_methods_db' :
                                           payment_methods_db'[m].user_id = method.user_id}
                      IN  /\ (method.is_default /\ remaining /= {}) =>
                                 Cardinality(Defaults(payment_methods_db', method.user_id)) = 1
                          /\ ~method.is_default =>
                                 \A m \in DOMAIN payment_methods_db' :
                                     payment_methods_db'[m] = payment_methods_db[m]
      ]_vars

\* the default Visa card was deleted and the checking account took its place
C23_Witness ==
    /\ payments_response = [op |-> "delete_method", id |-> MethodId(1), code |-> 204]
    /\ MethodId(2) \in DOMAIN payment_methods_db
    /\ payment_methods_db[MethodId(2)] =
           PaymentMethod("p1", <<"Chase Checking Account">>, TRUE)

(* C25: a create_payment_method that succeeds increases the number of      *)
(* stored methods by one, stores the method under an id that was not       *)
(* stored before, and keeps every method that was stored.                  *)
C25_CreateAddsOne ==
    [][payments_response'.op = "create_method" =>
          /\ Cardinality(DOMAIN payment_methods_db') =
                 Cardinality(DOMAIN payment_methods_db) + 1
          /\ payments_response'.id \notin DOMAIN payment_methods_db
          /\ \A id \in DOMAIN payment_methods_db :
                 /\ id \in DOMAIN payment_methods_db'
                 /\ payment_methods_db'[id].user_id = payment_methods_db[id].user_id
                 /\ payment_methods_db'[id].name = payment_methods_db[id].name
      ]_vars

\* the fields of a payment that the routes write
PaymentFields == DOMAIN Payment(0, <<>>, Null, "upcoming", Null, Null, <<>>)

\* the payments other than id, and the methods, are as they were
OnlyPaymentChanged(id) ==
    /\ DOMAIN payments_db' = DOMAIN payments_db
    /\ \A other \in DOMAIN payments_db \ {id} : payments_db'[other] = payments_db[other]
    /\ UNCHANGED <<payment_methods_db, payment_method_keys>>

(* C21: process_payment refuses, in this order, an unknown payment id      *)
(* (404), an unknown payment method id (404) and an amount other than the  *)
(* payment's (400), and then leaves payments_db and payment_methods_db as  *)
(* they were; otherwise it changes only the addressed payment: its status  *)
(* becomes "paid", its paid_date the day of the call, its payment_method   *)
(* the name of the method, and it gets a transaction_id.                   *)
C21_ProcessChecksThenPays ==
    [][payments_response'.op = "process" =>
          LET request == payments_response'
              id == request.id
          IN  IF id \notin DOMAIN payments_db
              THEN /\ request.code = 404 /\ request.detail = "Payment"
                   /\ UNCHANGED <<payments_db, payment_methods_db, payment_method_keys>>
              ELSE IF request.payment_method_id \notin DOMAIN payment_methods_db
              THEN /\ request.code = 404 /\ request.detail = "Payment method"
                   /\ UNCHANGED <<payments_db, payment_methods_db, payment_method_keys>>
              ELSE IF payments_db[id].amount /= request.amount
              THEN /\ request.code = 400
                   /\ UNCHANGED <<payments_db, payment_methods_db, payment_method_keys>>
              ELSE /\ request.code = 200
                   /\ OnlyPaymentChanged(id)
                   /\ payments_db'[id].status = "paid"
                   /\ payments_db'[id].paid_date = Today
                   /\ payments_db'[id].payment_method =
                          payment_methods_db[request.payment_method_id].name
                   /\ payments_db'[id].transaction_id /= Null
                   /\ Prefix(payments_db'[id].transaction_id, 1) = <<"txn_">>
                   /\ \A field \in {"amount", "due_date", "notes"} :
                          payments_db'[id][field] = payments_db[id][field]
      ]_vars

\* the first payment was paid with the checking account
C21_Witness ==
    /\ payments_response.op = "process"
    /\ payments_response.code = 200
    /\ payments_response.payment_method_id = MethodId(2)
    /\ payments_db[PayId(1)].status = "paid"
    /\ payments_db[PayId(1)].payment_method = <<"Chase Checking Account">>
    /\ payments_db[PayId(1)].paid_date = Today

(* C24: an update_payment whose paid_date is not empty leaves the status   *)
(* "paid", also when the update supplies another status; the call changes  *)
(* only the fields the update sets, the status and updated_at, of the      *)
(* addressed payment; an unknown id answers 404 and changes nothing.       *)
C24_DatedUpdateIsPaid ==
    [][payments_response'.op = "update" =>
          LET id == payments_response'.id
          IN  IF payments_response'.code = 404
              THEN /\ id \notin DOMAIN payments_db
                   /\ UNCHANGED <<payments_db, payment_methods_db, payment_method_keys>>
              ELSE LET updates == payments_response'.updates
                   IN  /\ id \in DOMAIN payments_db
                       /\ OnlyPaymentChanged(id)
                       /\ ("paid_date" \in DOMAIN updates /\ ~Falsy(updates.paid_date)) =>
                              payments_db'[id].status = "paid"
                       /\ \A field \in PaymentFields \ {"status", "updated_at"} :
                              payments_db'[id][field] =
                                  IF field \in DOMAIN updates THEN updates[field]
                                  ELSE payments_db[id][field]
      ]_vars

\* an update gave a paid date and the status overdue, and the payment is paid
C24_Witness ==
    /\ payments_response.op = "update"
    /\ payments_response.code = 200
    /\ payments_response.updates = [paid_date |-> Today, status |-> "overdue"]
    /\ payments_db[payments_response.id].status = "paid"
    /\ payments_db[payments_response.id].paid_date = Today

\* the billing service or the payments service: each keeps its own records
Services == {"billing", "payments"}

InitRecords ==
    /\ TranscriptIdle
    /\ BillingInit
    /\ WaitIdle
    /\ CalendarInit
    /\ SessionInit
    /\ HandlerIdle
    /\ PaymentsInit
    /\ service \in Services

NextRecords ==
    \/ service = "billing" /\ NextBilling
    \/ service = "payments" /\ (CreatePayment \/ UpdatePayment)

\* the routes of a service that write its records, creation included
SpecRecords == InitRecords /\ [][NextRecords]_vars

\* db after a create: one record more, under an id that was not stored,
\* and every stored record as it was
OneAdded(before, after, id) ==
    /\ id \notin DOMAIN before
    /\ DOMAIN after = DOMAIN before \cup {id}
    /\ \A other \in DOMAIN before : after[other] = before[other]

(* C26: create_superbill and create_payment never reuse the id of a stored *)
(* record: a create that succeeds adds exactly one record, under a new id, *)
(* with status "pending" for a superbill and "upcoming" or "overdue" for a *)
(* payment, and leaves every stored record as it was.                      *)
C26_CreateUsesNewId ==
    [][/\ (service = "billing" /\ billing_request'.op = "create") =>
             /\ billing_response'.code = 201
             /\ OneAdded(superbills_db, superbills_db', billing_response'.id)
             /\ superbills_db'[billing_response'.id].status = "pending"
       /\ (service = "payments" /\ payments_response'.op = "create") =>
             IF payments_response'.code = 201
             THEN /\ OneAdded(payments_db, payments_db', payments_response'.id)
                  /\ payments_db'[payments_response'.id].status \in {"upcoming", "overdue"}
                  /\ UNCHANGED <<payment_methods_db, payment_method_keys>>
             ELSE UNCHANGED <<payments_db, payment_methods_db, payment_method_keys>>
      ]_vars

\* a payment past its due date was created after the first payment was paid
C26_Witness ==
    /\ service = "payments"
    /\ payments_response = [op |-> "create", code |-> 201, id |-> PayId(4)]
    /\ payments_db[PayId(4)].status = "overdue"
    /\ payments_db[PayId(4)].due_date = <<"2025", "-", "03", "-", "20">>
    /\ payments_db[PayId(1)].status = "paid"
====
